---- MODULE Spec2Model ----
(***************************************************************************)
(* Descriptor storage sub-allocator (video::IDescriptorPool) and the       *)
(* fence-gated descriptor set cache (video::IDescriptorSetCache) as used   *)
(* by scene::ITransformTreeManager.                                        *)
(*                                                                         *)
(* Two specifications share this module:                                   *)
(*   CacheSpec : the descriptor set cache, the transform-tree update path  *)
(*               that cycles sets through it, a direct user of             *)
(*               DescriptorSetCache::acquireSet, and the device's fences.  *)
(*   PoolSpec  : the descriptor pool, its per-type address allocators and  *)
(*               its typed storage arrays.                                 *)
(***************************************************************************)
EXTENDS Integers, Sequences, FiniteSets, TLC

(***************************************************************************)
(* Bounds of the model.                                                    *)
(***************************************************************************)
\* Number of sets in the cache under check (the transform-tree cache of the
\* source holds DescriptorCacheSize = 32 of them): two entry points and a
\* direct user compete for them.
MaxCacheSize == 2

\* Width of the unsigned words of the model. The source computes in uint32_t;
\* TLC's integers stop below 2^31, so the words are narrower here and
\* every sum is taken modulo 2^WordBits.
WordBits == 16

\* Capacity of the largest binding kind of the pools under check
MaxDescriptors == 3

\* maxSets of the pools under check
MaxSets == 3

\* Largest number of layouts handed to one createDescriptorSets call
MaxBatch == 2

\* The most requests in the poolSizes array of a pool
MaxPoolSizes == 3

(***************************************************************************)
(* State of the cache specification.                                       *)
(***************************************************************************)
VARIABLES
    slotState,      \* cache slot -> "FREE" | "ACQUIRED" | "PENDING"
    slotToken,      \* cache slot -> fence latched by the deferred release, or NoFence
    releaseStatus,  \* outcome of the last releaseSet call
    signalled,      \* the fences the device has signalled
    pc,             \* transform-tree entry point -> position in soleUpdateOrFusedRecompute_impl
    dsix,           \* transform-tree entry point -> its local `dsix`
    fence,          \* transform-tree entry point -> params.fence of the running call
    hostWrite,      \* the sets updateDescriptorSets wrote in the step that led here
    cmdbuf,         \* transform-tree entry point -> set bound and dispatched in params.cmdbuf
    inFlight,       \* <<slot, fence>>: device work reading the set until the fence signals
    held,           \* indices the direct user got from DescriptorSetCache::acquireSet
    userPc,         \* the direct user: "idle", or "returned" right after an acquireSet call
    userRet,        \* what DescriptorSetCache::acquireSet returned to the direct user
    acquirePre,     \* what the acquire of the step that led here found: see acquireFound
    history,        \* indices returned by the acquires since construction, until the first release
    scenario        \* monitor of "all held, one released with a satisfied token, polled, acquired"

cacheVars == <<slotState, slotToken, releaseStatus, signalled, pc, dsix, fence,
               hostWrite, cmdbuf, inFlight, held, userPc, userRet, acquirePre, history, scenario>>

(***************************************************************************)
(* State of the pool specification.                                        *)
(***************************************************************************)
VARIABLES
    requested,              \* the poolSizes array the pool was constructed with
    m_flags,                \* the creation flags of the pool
    m_maxSets,              \* the number of sets the pool can hold
    m_maxDescriptorCount,   \* descriptor type -> capacity
    m_descriptorAllocators, \* channel -> allocator_state_t
    m_storageSize,          \* storage array -> number of elements it was created with
    constructed,            \* storage array -> indices that hold a constructed descriptor
    undefinedBehaviour,     \* a descriptor was constructed past the end of its array
    descriptorSets,         \* set identifier -> [live, layout, offsets]
    stored,                 \* storage array -> <<index, handle>>: the handles the slots hold
    written,                \* <<set, channel, element, handle>>: the handle last written there
    poolResult,             \* the last call on the pool and what it returned
    created,                \* what the watched caller's last create call was given: see createdBy
    lifetime                \* whether the pool was destroyed, and the slots destructed while
                            \* they held no constructed descriptor

poolVars == <<requested, m_flags, m_maxSets, m_maxDescriptorCount, m_descriptorAllocators, m_storageSize,
              constructed, undefinedBehaviour, descriptorSets, stored, written, poolResult,
              created, lifetime>>

(***************************************************************************)
(* State of the allocator specification: one allocator_state_t driven      *)
(* call by call.                                                           *)
(***************************************************************************)
VARIABLES
    alloc_state,    \* the allocator_state_t
    alloc_max,      \* the maxDescriptorCount it was constructed with
    alloc_freeing,  \* the allowsFreeing it was constructed with and is called with
    alloc_live,     \* the addresses handed out and not freed
    alloc_last      \* the last call on the allocator and what it returned

allocVars == <<alloc_state, alloc_max, alloc_freeing, alloc_live, alloc_last>>

vars == <<cacheVars, poolVars, allocVars>>

(***************************************************************************)
(* Constants of the source.                                                *)
(***************************************************************************)
\* ~0u: all bits of an unsigned word set
AllBitsSet == 2^WordBits - 1

\* IDescriptorSetCache::invalid_index, the allocator's invalid address (~0u)
invalid_index == AllBitsSet

\* ITransformTreeManager::DescriptorCacheSize: the pool the cache is built
\* over is created for DescriptorCacheSize sets of the shared layout.
DescriptorCacheSize == MaxCacheSize

\* IDescriptorSetCache::getCapacity
CacheCapacity == DescriptorCacheSize

Slots == 0..(CacheCapacity - 1)

\* DescriptorSetCache::SharedBindingCount
SharedBindingCount == 3

\* The two public entry points that run soleUpdateOrFusedRecompute_impl<N>
EntryPoints == {"updateLocalTransforms", "recomputeGlobalTransforms"}

\* The completion tokens (video::IGPUFence) of the device
Fences == {"fenceA", "fenceB"}

NoFence == "none"

(***************************************************************************)
(* video::IDescriptorSetCache: a ring of CacheCapacity sets, each FREE,    *)
(* ACQUIRED or RELEASED-PENDING on a fence.                                *)
(***************************************************************************)
FreeSlots(st) == {i \in Slots : st[i] = "FREE"}

\* The RELEASED-PENDING slots whose fence is observed signalled
Reclaimable(st, tok, sig) == {i \in Slots : st[i] = "PENDING" /\ tok[i] \in sig}

\* Faulty variant: a reclaimed slot keeps its fence
pollForReadyEvents_latched(st, tok, sig) ==
    [st  |-> [i \in Slots |-> IF i \in Reclaimable(st, tok, sig) THEN "FREE" ELSE st[i]],
     tok |-> tok]

\* Faulty variant: the poll reclaims nothing
pollForReadyEvents_none(st, tok, sig) == [st |-> st, tok |-> tok]

\* The non-blocking poll: every RELEASED-PENDING slot whose fence is signalled
\* becomes FREE and forgets its fence.
pollForReadyEvents(st, tok, sig) ==
    [st  |-> [i \in Slots |-> IF i \in Reclaimable(st, tok, sig) THEN "FREE" ELSE st[i]],
     tok |-> [i \in Slots |-> IF i \in Reclaimable(st, tok, sig) THEN NoFence ELSE tok[i]]]

\* Taking one FREE slot: any of them may be the one handed out.
takeFree(st, tok) ==
    {[ret |-> i, st |-> [st EXCEPT ![i] = "ACQUIRED"], tok |-> tok] : i \in FreeSlots(st)}

\* IDescriptorSetCache::acquireSet(): a FREE slot if there is one; otherwise
\* the poll first, and INVALID only when that reclaimed nothing.
IDescriptorSetCache_acquireSet(st, tok, sig) ==
    IF FreeSlots(st) # {}
    THEN takeFree(st, tok)
    ELSE LET p == pollForReadyEvents(st, tok, sig)
         IN  IF FreeSlots(p.st) # {}
             THEN takeFree(p.st, p.tok)
             ELSE {[ret |-> invalid_index, st |-> st, tok |-> tok]}

\* Faulty variant: a slot that is RELEASED-PENDING is latched on the new fence
IDescriptorSetCache_releaseSet_relatch(st, tok, f, setIx) ==
    IF setIx \in Slots /\ st[setIx] \in {"ACQUIRED", "PENDING"}
    THEN [status |-> "ok",
          st |-> [st EXCEPT ![setIx] = "PENDING"],
          tok |-> [tok EXCEPT ![setIx] = f]]
    ELSE [status |-> "InvalidOperation", st |-> st, tok |-> tok]

\* IDescriptorSetCache::releaseSet(device, fence, setIx): ACQUIRED ->
\* RELEASED-PENDING latched on the fence; anything else is an InvalidOperation.
IDescriptorSetCache_releaseSet(st, tok, f, setIx) ==
    IF setIx \in Slots /\ st[setIx] = "ACQUIRED"
    THEN [status |-> "ok",
          st |-> [st EXCEPT ![setIx] = "PENDING"],
          tok |-> [tok EXCEPT ![setIx] = f]]
    ELSE [status |-> "InvalidOperation", st |-> st, tok |-> tok]

\* IDescriptorSetCache::getSet(index): the sets are identified by their index
getSet(index) == index

\* ILogicalDevice::updateDescriptorSets(count, writes, 0u, nullptr) with every
\* writes[i].dstSet = set: the host overwrites the storage of that set.
updateDescriptorSets(set) == {set}

(***************************************************************************)
(* Observers of the cache calls (history variables, no program state).     *)
(***************************************************************************)
\* What an acquire finds when it is called
acquireFound(st, tok, sig) ==
    IF \E i \in Slots : st[i] = "FREE" THEN "free"
    ELSE IF \E i \in Slots : st[i] = "PENDING" /\ tok[i] \in sig THEN "reclaimable"
    ELSE "exhausted"

\* The values the acquires returned since construction, up to the first release
historyAfterAcquire(h, ret) ==
    IF h.open /\ Len(h.log) < CacheCapacity + 1
    THEN [h EXCEPT !.log = Append(@, ret)]
    ELSE h

historyAfterRelease == [open |-> FALSE, log |-> <<>>]

scenarioIdle == [phase |-> "idle", slot |-> invalid_index, ret |-> invalid_index]

\* A release of setIx with an already signalled fence while every slot was held
scenarioAfterRelease(st, sig, f, setIx, status) ==
    IF status = "ok" /\ f \in sig /\ (\A i \in Slots : st[i] = "ACQUIRED")
    THEN [phase |-> "released", slot |-> setIx, ret |-> invalid_index]
    ELSE scenarioIdle

scenarioAfterPoll(sc) ==
    IF sc.phase = "released" THEN [sc EXCEPT !.phase = "polled"] ELSE scenarioIdle

scenarioAfterAcquire(sc, ret) ==
    IF sc.phase = "polled"
    THEN [phase |-> "acquired", slot |-> sc.slot, ret |-> ret]
    ELSE scenarioIdle

(***************************************************************************)
(* scene::ITransformTreeManager::soleUpdateOrFusedRecompute_impl<N>, run   *)
(* by updateLocalTransforms (N = 2) and recomputeGlobalTransforms (N = 1). *)
(***************************************************************************)
\* Faulty variant: the index is not tested
acquireFailed_never(ix) == FALSE

\* if (dsix==video::IDescriptorSetCache::invalid_index)
acquireFailed(ix) == ix = invalid_index

\* Faulty variant: the set is looked up at a fixed index, not at dsix
tempDS_first(e) == getSet(0)

\* video::IGPUDescriptorSet* tempDS = m_dsCache->getSet(dsix);
tempDS(e) == getSet(dsix[e])

\* Faulty variant: a fixed index is released, not dsix
releasedSetIx_first(e) == 0

\* The index handed to m_dsCache->releaseSet(m_device.get(), fence, dsix)
releasedSetIx(e) == dsix[e]

\* Faulty variant: no fence is handed to releaseSet
releasedFence_none(e) == NoFence

\* The fence handed to releaseSet: params.fence
releasedFence(e) == fence[e]

\* auto dsix = m_dsCache->acquireSet(); with params.fence = f
TTM_acquireSet(e, f) ==
    /\ pc[e] = "idle"
    /\ \E r \in IDescriptorSetCache_acquireSet(slotState, slotToken, signalled) :
          /\ slotState' = r.st
          /\ slotToken' = r.tok
          /\ dsix' = [dsix EXCEPT ![e] = r.ret]
          /\ pc' = [pc EXCEPT ![e] = IF acquireFailed(r.ret) THEN "failed" ELSE "update"]
          /\ history' = historyAfterAcquire(history, r.ret)
          /\ scenario' = scenarioAfterAcquire(scenario, r.ret)
    /\ acquirePre' = acquireFound(slotState, slotToken, signalled)
    /\ fence' = [fence EXCEPT ![e] = f]
    /\ hostWrite' = {}
    /\ UNCHANGED <<releaseStatus, signalled, cmdbuf, inFlight, held, userPc, userRet>>

\* Faulty variant: the entry point does not return before a slot can be had
TTM_returnFalse_waits(e) ==
    /\ pc[e] = "failed"
    /\ acquireFound(slotState, slotToken, signalled) # "exhausted"
    /\ pc' = [pc EXCEPT ![e] = "idle"]
    /\ dsix' = [dsix EXCEPT ![e] = invalid_index]
    /\ fence' = [fence EXCEPT ![e] = NoFence]
    /\ hostWrite' = {}
    /\ acquirePre' = "none"
    /\ UNCHANGED <<slotState, slotToken, releaseStatus, signalled, cmdbuf,
                   inFlight, held, userPc, userRet, history, scenario>>

\* params.logger.log("... Failed to acquire descriptor set!"); return false;
TTM_returnFalse(e) ==
    /\ pc[e] = "failed"
    /\ pc' = [pc EXCEPT ![e] = "idle"]
    /\ dsix' = [dsix EXCEPT ![e] = invalid_index]
    /\ fence' = [fence EXCEPT ![e] = NoFence]
    /\ hostWrite' = {}
    /\ acquirePre' = "none"
    /\ UNCHANGED <<slotState, slotToken, releaseStatus, signalled, cmdbuf,
                   inFlight, held, userPc, userRet, history, scenario>>

\* m_device->updateDescriptorSets(MaxBindingCount,w,0u,nullptr);
TTM_updateDescriptorSets(e) ==
    /\ pc[e] = "update"
    /\ tempDS(e) \in Slots
    /\ hostWrite' = updateDescriptorSets(tempDS(e))
    /\ acquirePre' = "none"
    /\ pc' = [pc EXCEPT ![e] = "record"]
    /\ UNCHANGED <<slotState, slotToken, releaseStatus, signalled, dsix, fence, cmdbuf,
                   inFlight, held, userPc, userRet, history, scenario>>

\* Faulty variant: the call returns after the dispatch and releases nothing
TTM_bindAndDispatch_returns(e) ==
    /\ pc[e] = "record"
    /\ cmdbuf' = [cmdbuf EXCEPT ![e] = {}]
    /\ inFlight' = IF fence[e] \in signalled
                   THEN inFlight
                   ELSE inFlight \cup {<<tempDS(e), fence[e]>>}
    /\ pc' = [pc EXCEPT ![e] = "idle"]
    /\ dsix' = [dsix EXCEPT ![e] = invalid_index]
    /\ fence' = [fence EXCEPT ![e] = NoFence]
    /\ hostWrite' = {}
    /\ acquirePre' = "none"
    /\ UNCHANGED <<slotState, slotToken, releaseStatus, signalled,
                   held, userPc, userRet, history, scenario>>

\* cmdbuf->bindDescriptorSets(...,descSets,...); bindComputePipeline; dispatch:
\* once recorded, the device work guarded by params.fence reads tempDS until
\* that fence signals.
TTM_bindAndDispatch(e) ==
    /\ pc[e] = "record"
    /\ cmdbuf' = [cmdbuf EXCEPT ![e] = {tempDS(e)}]
    /\ inFlight' = IF fence[e] \in signalled
                   THEN inFlight
                   ELSE inFlight \cup {<<tempDS(e), fence[e]>>}
    /\ pc' = [pc EXCEPT ![e] = "release"]
    /\ hostWrite' = {}
    /\ acquirePre' = "none"
    /\ UNCHANGED <<slotState, slotToken, releaseStatus, signalled, dsix, fence,
                   held, userPc, userRet, history, scenario>>

\* m_dsCache->releaseSet(m_device.get(),fence,dsix); return true;
TTM_releaseSet(e) ==
    /\ pc[e] = "release"
    /\ LET r == IDescriptorSetCache_releaseSet(slotState, slotToken, releasedFence(e), releasedSetIx(e))
       IN  /\ slotState' = r.st
           /\ slotToken' = r.tok
           /\ releaseStatus' = r.status
           /\ scenario' = scenarioAfterRelease(slotState, signalled, releasedFence(e),
                                               releasedSetIx(e), r.status)
    /\ history' = historyAfterRelease
    /\ pc' = [pc EXCEPT ![e] = "idle"]
    /\ dsix' = [dsix EXCEPT ![e] = invalid_index]
    /\ fence' = [fence EXCEPT ![e] = NoFence]
    /\ cmdbuf' = [cmdbuf EXCEPT ![e] = {}]
    /\ hostWrite' = {}
    /\ acquirePre' = "none"
    /\ UNCHANGED <<signalled, inFlight, held, userPc, userRet>>

(***************************************************************************)
(* scene::ITransformTreeManager::DescriptorSetCache::acquireSet(device,    *)
(* buffers, count) and a direct user of it, who releases what it holds.    *)
(***************************************************************************)
\* Faulty variants of the return value: `count` returned in place of `retval`;
\* 0 returned on failure; index 0 taken for a failure.
acquireSet_retval_count(retval, count) == count

acquireSet_retval_zero(retval, count) ==
    IF retval = invalid_index THEN 0 ELSE retval

acquireSet_retval_null(retval, count) ==
    IF retval = invalid_index \/ retval = 0 THEN invalid_index ELSE retval

\* What acquireSet(device,buffers,count) returns for the base class's retval:
\* if (retval==invalid_index) return invalid_index; ...; return retval;
acquireSet_retval(retval, count) ==
    IF retval = invalid_index THEN invalid_index ELSE retval

\* The set acquireSet(device,buffers,count) writes: getSet(retval)
acquireSet_set(retval) == getSet(retval)

User_acquireSet(count) ==
    /\ userPc = "idle"
    /\ \E r \in IDescriptorSetCache_acquireSet(slotState, slotToken, signalled) :
          LET ret == acquireSet_retval(r.ret, count)
          IN  /\ slotState' = r.st
              /\ slotToken' = r.tok
              /\ hostWrite' = IF r.ret = invalid_index
                              THEN {}
                              ELSE updateDescriptorSets(acquireSet_set(r.ret))
              /\ userRet' = ret
              /\ held' = IF ret = invalid_index THEN held ELSE held \cup {ret}
              /\ history' = historyAfterAcquire(history, ret)
              /\ scenario' = scenarioAfterAcquire(scenario, ret)
    /\ userPc' = "returned"
    /\ acquirePre' = acquireFound(slotState, slotToken, signalled)
    /\ UNCHANGED <<releaseStatus, signalled, pc, dsix, fence, cmdbuf, inFlight>>

\* The user goes on with the index it was given
User_continue ==
    /\ userPc = "returned"
    /\ userPc' = "idle"
    /\ userRet' = invalid_index
    /\ hostWrite' = {}
    /\ acquirePre' = "none"
    /\ UNCHANGED <<slotState, slotToken, releaseStatus, signalled, pc, dsix, fence,
                   cmdbuf, inFlight, held, history, scenario>>

\* The user submits work reading set setIx guarded by fence f, then calls
\* releaseSet(device, f, setIx)
User_releaseSet(setIx, f) ==
    /\ userPc = "idle"
    /\ setIx \in held
    /\ inFlight' = IF f \in signalled \/ setIx \notin Slots
                   THEN inFlight
                   ELSE inFlight \cup {<<getSet(setIx), f>>}
    /\ LET r == IDescriptorSetCache_releaseSet(slotState, slotToken, f, setIx)
       IN  /\ slotState' = r.st
           /\ slotToken' = r.tok
           /\ releaseStatus' = r.status
           /\ scenario' = scenarioAfterRelease(slotState, signalled, f, setIx, r.status)
    /\ history' = historyAfterRelease
    /\ held' = held \ {setIx}
    /\ hostWrite' = {}
    /\ acquirePre' = "none"
    /\ UNCHANGED <<signalled, pc, dsix, fence, cmdbuf, userPc, userRet>>

\* The indices a caller can pass that are not slots of the cache
IndicesOutOfRange == {CacheCapacity, invalid_index}

\* The user calls releaseSet(device, f, setIx) for a set that is not ACQUIRED:
\* one that is FREE or RELEASED-PENDING, or an index that is no slot
User_releaseSetNotAcquired(setIx, f) ==
    /\ userPc = "idle"
    /\ setIx \in Slots => slotState[setIx] # "ACQUIRED"
    /\ \E r \in {IDescriptorSetCache_releaseSet(slotState, slotToken, f, setIx)} :
          /\ slotState' = r.st
          /\ slotToken' = r.tok
          /\ releaseStatus' = r.status
    /\ UNCHANGED <<signalled, pc, dsix, fence, hostWrite, cmdbuf, inFlight, held, userPc,
                   userRet, acquirePre, history, scenario>>

(***************************************************************************)
(* The explicit poll step of the cache and the device.                     *)
(***************************************************************************)
Cache_poll ==
    /\ LET p == pollForReadyEvents(slotState, slotToken, signalled)
       IN  /\ slotState' = p.st
           /\ slotToken' = p.tok
    /\ scenario' = scenarioAfterPoll(scenario)
    /\ hostWrite' = {}
    /\ acquirePre' = "none"
    /\ UNCHANGED <<releaseStatus, signalled, pc, dsix, fence, cmdbuf, inFlight,
                   held, userPc, userRet, history>>

\* The device finishes the work guarded by fence f
Device_signal(f) ==
    /\ f \notin signalled
    /\ signalled' = signalled \cup {f}
    /\ inFlight' = {w \in inFlight : w[2] # f}
    /\ hostWrite' = {}
    /\ acquirePre' = "none"
    /\ UNCHANGED <<slotState, slotToken, releaseStatus, pc, dsix, fence, cmdbuf,
                   held, userPc, userRet, history, scenario>>

\* The state after the cache, the manager and its user are constructed
CacheConstructed ==
    /\ slotState = [i \in Slots |-> "FREE"]
    /\ slotToken = [i \in Slots |-> NoFence]
    /\ releaseStatus = "none"
    /\ signalled = {}
    /\ pc = [e \in EntryPoints |-> "idle"]
    /\ dsix = [e \in EntryPoints |-> invalid_index]
    /\ fence = [e \in EntryPoints |-> NoFence]
    /\ hostWrite = {}
    /\ cmdbuf = [e \in EntryPoints |-> {}]
    /\ inFlight = {}
    /\ held = {}
    /\ userPc = "idle"
    /\ userRet = invalid_index
    /\ acquirePre = "none"
    /\ history = [open |-> TRUE, log |-> <<>>]
    /\ scenario = scenarioIdle

(***************************************************************************)
(* video::IDescriptorPool: descriptor types and the channels of the        *)
(* offset table.                                                           *)
(***************************************************************************)
\* asset::IDescriptor::E_TYPE, in the order of its values
DescriptorTypes ==
    <<"ET_COMBINED_IMAGE_SAMPLER", "ET_STORAGE_IMAGE", "ET_UNIFORM_TEXEL_BUFFER",
      "ET_STORAGE_TEXEL_BUFFER", "ET_UNIFORM_BUFFER", "ET_STORAGE_BUFFER",
      "ET_UNIFORM_BUFFER_DYNAMIC", "ET_STORAGE_BUFFER_DYNAMIC", "ET_INPUT_ATTACHMENT",
      "ET_ACCELERATION_STRUCTURE">>

ET_COUNT == Len(DescriptorTypes)

Kinds == {DescriptorTypes[i] : i \in 1..ET_COUNT}

\* Index ET_COUNT of SDescriptorOffsets::data and of m_descriptorAllocators:
\* the channel of the (possibly) mutable samplers
MutableSamplers == "ET_COUNT"

\* The ET_COUNT + 1 entries of SDescriptorOffsets::data, in index order
ChannelOrder == Append(DescriptorTypes, MutableSamplers)

Channels == Kinds \cup {MutableSamplers}

\* Faulty variant: the table is filled with 0
SDescriptorOffsets_zero == [c \in Channels |-> 0]

\* SDescriptorOffsets(): std::fill_n(data, ET_COUNT + 1, ~0u)
SDescriptorOffsets == [c \in Channels |-> AllBitsSet]

\* The element of a one-element set: { e(x) : x \in {v} } names the value v
Only(S) == CHOOSE x \in S : TRUE

\* Faulty variant: the count is assigned, not added
add32_assigned(a, b) == b

\* uint32_t addition
add32(a, b) == (a + b) % (2^WordBits)

\* Faulty variant: every pool is taken to allow freeing
allowsFreeing_always(flags) == TRUE

\* m_flags & ECF_FREE_DESCRIPTOR_SET_BIT
allowsFreeing(flags) == "ECF_FREE_DESCRIPTOR_SET_BIT" \in flags

(***************************************************************************)
(* core::LinearAddressAllocator and core::GeneralpurposeAddressAllocator   *)
(* over addresses [0, reserved) with unit alignment and unit blocks.       *)
(***************************************************************************)
\* The allocators' invalid_address
invalid_address == AllBitsSet

\* LinearAddressAllocator::alloc_addr(count, 1u): bump the cursor
linear_alloc_addr(a, count) ==
    IF a.cursor + count > a.reserved
    THEN [addr |-> invalid_address, a |-> a]
    ELSE [addr |-> a.cursor, a |-> [a EXCEPT !.cursor = a.cursor + count]]

\* Faulty variant: a free range fits when the free ranges together can hold
\* `count` addresses
fittingRanges_together(a, count) ==
    {r \in a.freeRanges :
        Cardinality({x \in 0..(a.reserved - 1) :
                        \E q \in a.freeRanges : q[1] <= x /\ x < q[1] + q[2]}) >= count}

\* The free ranges <<offset, size>> that can hold `count` addresses
fittingRanges(a, count) == {r \in a.freeRanges : r[2] >= count}

\* The fitting range of lowest offset
firstFit(a, count) ==
    CHOOSE r \in fittingRanges(a, count) : \A q \in fittingRanges(a, count) : r[1] <= q[1]

\* The allocator after `count` addresses were taken from the start of its
\* free range r: the rest of the range stays free
takeFromRange(a, r, count) ==
    IF count = 0
    THEN a
    ELSE [a EXCEPT !.freeRanges =
             (a.freeRanges \ {r})
                 \cup (IF r[2] > count THEN {<<r[1] + count, r[2] - count>>} ELSE {})]

\* GeneralpurposeAddressAllocator::alloc_addr(count, 1u): first fit; a
\* request for no address succeeds and takes nothing
general_alloc_addr(a, count) ==
    IF count = 0
    THEN [addr |-> 0, a |-> a]
    ELSE IF fittingRanges(a, count) = {}
    THEN [addr |-> invalid_address, a |-> a]
    ELSE Only({[addr |-> r[1], a |-> takeFromRange(a, r, count)] : r \in {firstFit(a, count)}})

\* Address `addr` is free in allocator a
isFree(a, addr) == \E r \in a.freeRanges : r[1] <= addr /\ addr < r[1] + r[2]

\* Some address of [offset, offset + count) is not allocated: it is free or
\* lies outside the addresses of the allocator
notAllocated(a, offset, count) ==
    \E i \in 0..(count - 1) : offset + i >= a.reserved \/ isFree(a, offset + i)

\* The free range made of [offset, offset + count) and of the free ranges
\* `left` and `right` that touch it
mergedRange(left, right, offset, count) ==
    Only({<<lo, hi - lo>> :
            lo \in (IF left = {} THEN {offset} ELSE {r[1] : r \in left}),
            hi \in (IF right = {} THEN {offset + count} ELSE {r[1] + r[2] : r \in right})})

\* Faulty variant: the range is free again but is kept apart from the free
\* ranges that touch it
general_free_addr_apart(a, offset, count) ==
    IF count = 0 \/ notAllocated(a, offset, count)
    THEN a
    ELSE [a EXCEPT !.freeRanges = a.freeRanges \cup {<<offset, count>>}]

\* Faulty variant: a range that is not allocated is put on the free ranges
\* like any other
general_free_addr_unchecked(a, offset, count) ==
    IF count = 0
    THEN a
    ELSE Only({[a EXCEPT !.freeRanges =
                    (a.freeRanges \ (lr[1] \cup lr[2]))
                        \cup {mergedRange(lr[1], lr[2], offset, count)}]
               : lr \in {<<{r \in a.freeRanges : r[1] + r[2] = offset},
                           {r \in a.freeRanges : r[1] = offset + count}>>}})

\* GeneralpurposeAddressAllocator::free_addr(offset, count): the range is
\* free again and merges with the free ranges that touch it; a range that is
\* not allocated is refused (fail fast) and nothing changes
general_free_addr(a, offset, count) ==
    IF count = 0 \/ notAllocated(a, offset, count)
    THEN a
    ELSE Only({[a EXCEPT !.freeRanges =
                    (a.freeRanges \ (lr[1] \cup lr[2]))
                        \cup {mergedRange(lr[1], lr[2], offset, count)}]
               : lr \in {<<{r \in a.freeRanges : r[1] + r[2] = offset},
                           {r \in a.freeRanges : r[1] = offset + count}>>}})

(***************************************************************************)
(* IDescriptorPool::allocator_state_t: a union of the two allocators. The  *)
(* tag names the member that was constructed; "none" is the union left     *)
(* uninitialised, "undefined" the state after a member was used that was   *)
(* not constructed.                                                        *)
(***************************************************************************)
NoAllocator == [tag |-> "none", reserved |-> 0, cursor |-> 0, freeRanges |-> {}]

\* Faulty variant: an allocator is constructed for a count of 0 as well
allocator_state_t_always(maxDescriptorCount, allowsFreeingFlag) ==
    IF allowsFreeingFlag
    THEN [tag |-> "general", reserved |-> maxDescriptorCount, cursor |-> 0,
          freeRanges |-> {r \in {<<0, maxDescriptorCount>>} : r[2] > 0}]
    ELSE [tag |-> "linear", reserved |-> maxDescriptorCount, cursor |-> 0,
          freeRanges |-> {}]

\* Faulty variant: one address more than maxDescriptorCount is reserved
allocator_state_t_extra(maxDescriptorCount, allowsFreeingFlag) ==
    IF maxDescriptorCount = 0
    THEN NoAllocator
    ELSE IF allowsFreeingFlag
         THEN [tag |-> "general", reserved |-> maxDescriptorCount + 1, cursor |-> 0,
               freeRanges |-> {<<0, maxDescriptorCount + 1>>}]
         ELSE [tag |-> "linear", reserved |-> maxDescriptorCount + 1, cursor |-> 0,
               freeRanges |-> {}]

\* allocator_state_t(maxDescriptorCount, allowsFreeing)
allocator_state_t(maxDescriptorCount, allowsFreeingFlag) ==
    IF maxDescriptorCount = 0
    THEN NoAllocator
    ELSE IF allowsFreeingFlag
         THEN [tag |-> "general", reserved |-> maxDescriptorCount, cursor |-> 0,
               freeRanges |-> {<<0, maxDescriptorCount>>}]
         ELSE [tag |-> "linear", reserved |-> maxDescriptorCount, cursor |-> 0,
               freeRanges |-> {}]

\* The union after a member that was not constructed has been used
undefinedAllocator(a) == [a EXCEPT !.tag = "undefined"]

\* Faulty variant: the address alloc_addr returned is dropped and
\* invalid_address is returned in its place
allocate_unreturned(a, count, allowsFreeingFlag) ==
    IF allowsFreeingFlag
    THEN IF a.tag = "general"
         THEN [addr |-> invalid_address, a |-> general_alloc_addr(a, count).a]
         ELSE [addr |-> invalid_address, a |-> undefinedAllocator(a)]
    ELSE IF a.tag = "linear"
         THEN [addr |-> invalid_address, a |-> linear_alloc_addr(a, count).a]
         ELSE [addr |-> invalid_address, a |-> undefinedAllocator(a)]

\* Faulty variant: one address fewer than `count` is requested
allocate_short(a, count, allowsFreeingFlag) ==
    IF allowsFreeingFlag
    THEN IF a.tag = "general"
         THEN general_alloc_addr(a, count - 1)
         ELSE [addr |-> invalid_address, a |-> undefinedAllocator(a)]
    ELSE IF a.tag = "linear"
         THEN linear_alloc_addr(a, count - 1)
         ELSE [addr |-> invalid_address, a |-> undefinedAllocator(a)]

\* allocator_state_t::allocate(count, allowsFreeing)
allocate(a, count, allowsFreeingFlag) ==
    IF allowsFreeingFlag
    THEN IF a.tag = "general"
         THEN general_alloc_addr(a, count)
         ELSE [addr |-> invalid_address, a |-> undefinedAllocator(a)]
    ELSE IF a.tag = "linear"
         THEN linear_alloc_addr(a, count)
         ELSE [addr |-> invalid_address, a |-> undefinedAllocator(a)]

\* What an allocate call can come to. On a union whose member for the mode
\* was never constructed (maxDescriptorCount was 0) the call is undefined:
\* it may return invalid_address or an address, and leave the union as it
\* was or not
allocateOutcomes(a, count, allowsFreeingFlag) ==
    IF a.tag = (IF allowsFreeingFlag THEN "general" ELSE "linear")
    THEN {allocate(a, count, allowsFreeingFlag)}
    ELSE {[addr |-> x, a |-> b] : x \in {invalid_address, 0}, b \in {a, undefinedAllocator(a)}}

\* Faulty variant: only the first address of the range is handed back
free_one(a, allocatedOffset, count) ==
    IF a.tag = "general"
    THEN general_free_addr(a, allocatedOffset, 1)
    ELSE undefinedAllocator(a)

\* Faulty variant: the range is not handed back
free_nothing(a, allocatedOffset, count) ==
    IF a.tag = "general"
    THEN general_free_addr(a, allocatedOffset, 0)
    ELSE undefinedAllocator(a)

\* allocator_state_t::free(allocatedOffset, count)
free(a, allocatedOffset, count) ==
    IF a.tag = "general"
    THEN general_free_addr(a, allocatedOffset, count)
    ELSE undefinedAllocator(a)

(***************************************************************************)
(* IDescriptorPool::IDescriptorPool                                        *)
(***************************************************************************)
RECURSIVE accumulatePoolSizes(_, _)
\* for (i < poolSizeCount) m_maxDescriptorCount[poolSizes[i].type] += poolSizes[i].count;
accumulatePoolSizes(poolSizes, counts) ==
    IF poolSizes = <<>>
    THEN counts
    ELSE accumulatePoolSizes(Tail(poolSizes),
             [counts EXCEPT ![Head(poolSizes).type] = add32(@, Head(poolSizes).count)])

\* std::fill_n(m_maxDescriptorCount, ET_COUNT, 0u), then the accumulation
maxDescriptorCountOf(poolSizes) == accumulatePoolSizes(poolSizes, [k \in Kinds |-> 0])

\* m_descriptorAllocators[i] for i < ET_COUNT, and m_descriptorAllocators[ET_COUNT],
\* which is sized by m_maxDescriptorCount[ET_COUNT]: a read one past the end
\* of the array, whose value is `beyond`
descriptorAllocatorsOf(maxCount, beyond, flags) ==
    [c \in Channels |->
        allocator_state_t(IF c = MutableSamplers THEN beyond ELSE maxCount[c],
                          allowsFreeing(flags))]

\* The typed storage arrays of the pool
StorageArrays ==
    {"m_textureStorage", "m_mutableSamplerStorage", "m_storageImageStorage",
     "m_UBO_SSBOStorage", "m_UTB_STBStorage", "m_accelerationStructureStorage"}

\* The element counts the constructor gives to std::make_unique<...[]>
storageSizesOf(maxCount) ==
    [s \in StorageArrays |->
        CASE s = "m_textureStorage" -> maxCount["ET_COMBINED_IMAGE_SAMPLER"]
          [] s = "m_mutableSamplerStorage" -> maxCount["ET_COMBINED_IMAGE_SAMPLER"]
          [] s = "m_storageImageStorage" ->
                 add32(maxCount["ET_STORAGE_IMAGE"], maxCount["ET_INPUT_ATTACHMENT"])
          [] s = "m_UBO_SSBOStorage" ->
                 add32(add32(add32(maxCount["ET_UNIFORM_BUFFER"], maxCount["ET_STORAGE_BUFFER"]),
                             maxCount["ET_UNIFORM_BUFFER_DYNAMIC"]),
                       maxCount["ET_STORAGE_BUFFER_DYNAMIC"])
          [] s = "m_UTB_STBStorage" ->
                 add32(maxCount["ET_UNIFORM_TEXEL_BUFFER"], maxCount["ET_STORAGE_BUFFER_DYNAMIC"])
          [] s = "m_accelerationStructureStorage" -> maxCount["ET_ACCELERATION_STRUCTURE"]]

\* The channels stored in each array, in the order of the members' comments
\* ("storage image | input attachment", "ubo | ssbo | ubo dynamic | ssbo
\* dynamic", "utb | stb")
storageChannels(s) ==
    CASE s = "m_textureStorage" -> <<"ET_COMBINED_IMAGE_SAMPLER">>
      [] s = "m_mutableSamplerStorage" -> <<MutableSamplers>>
      [] s = "m_storageImageStorage" -> <<"ET_STORAGE_IMAGE", "ET_INPUT_ATTACHMENT">>
      [] s = "m_UBO_SSBOStorage" -> <<"ET_UNIFORM_BUFFER", "ET_STORAGE_BUFFER",
                                      "ET_UNIFORM_BUFFER_DYNAMIC", "ET_STORAGE_BUFFER_DYNAMIC">>
      [] s = "m_UTB_STBStorage" -> <<"ET_UNIFORM_TEXEL_BUFFER", "ET_STORAGE_TEXEL_BUFFER">>
      [] s = "m_accelerationStructureStorage" -> <<"ET_ACCELERATION_STRUCTURE">>

\* The array that stores the descriptors of channel c
storageOf(c) ==
    CHOOSE s \in StorageArrays : \E i \in 1..Len(storageChannels(s)) : storageChannels(s)[i] = c

RECURSIVE capacityBefore(_, _, _)
\* The capacity of the first n channels of a sequence of channels
capacityBefore(chans, n, maxCount) ==
    IF n = 0 THEN 0 ELSE add32(capacityBefore(chans, n - 1, maxCount), maxCount[chans[n]])

\* Faulty variant: every channel of an array starts at the first element
storageBase_shared(c, maxCount) == 0

\* The base index of channel c in its array: the capacities of the kinds
\* stored before it
storageBase(c, maxCount) ==
    LET chans == storageChannels(storageOf(c))
        i == CHOOSE j \in 1..Len(chans) : chans[j] = c
    IN  capacityBefore(chans, i - 1, maxCount)

\* The indices, in array s, of the range [offsets[c], offsets[c] + layout[c])
\* of every channel of s present in the offset table
storageSlots(s, layout, offsets, maxCount) ==
    UNION {IF offsets[c] = AllBitsSet
           THEN {}
           ELSE {storageBase(c, maxCount) + offsets[c] + i : i \in 0..(layout[c] - 1)}
           : c \in {x \in Channels : storageOf(x) = s}}

(***************************************************************************)
(* IDescriptorPool::createDescriptorSets, allocateDescriptorOffsets and    *)
(* freeDescriptorSets.                                                     *)
(***************************************************************************)
\* An IGPUDescriptorSetLayout, as the number of descriptors its bindings
\* declare on each channel
layoutOf(pairs) ==
    [c \in Channels |->
        IF \E p \in pairs : p[1] = c THEN (CHOOSE p \in pairs : p[1] = c)[2] ELSE 0]

\* The entry of a descriptor set that does not exist
NoDescriptorSet == [live |-> FALSE, layout |-> layoutOf({}), offsets |-> SDescriptorOffsets]

\* The index of channel c in SDescriptorOffsets::data
channelIndex(c) == CHOOSE i \in 1..Len(ChannelOrder) : ChannelOrder[i] = c

RECURSIVE allocateEach(_, _, _)
\* n allocate calls for one descriptor each; the address of the first
allocateEach(a, n, allowsFreeingFlag) ==
    IF n = 0
    THEN [addr |-> invalid_address, a |-> a, ok |-> TRUE]
    ELSE LET first == allocate(a, 1, allowsFreeingFlag)
             rest  == allocateEach(first.a, n - 1, allowsFreeingFlag)
         IN  IF first.addr = invalid_address
             THEN [addr |-> invalid_address, a |-> a, ok |-> FALSE]
             ELSE [addr |-> first.addr, a |-> rest.a, ok |-> rest.ok]

\* Faulty variant: the allocator is called once per descriptor of the channel
tryChannel_perDescriptor(a, count, allowsFreeingFlag) ==
    IF count = 0
    THEN [err |-> "", a |-> a, addr |-> AllBitsSet]
    ELSE IF a.tag = "none"
    THEN [err |-> "LayoutMismatch", a |-> a, addr |-> AllBitsSet]
    ELSE Only({[err |-> IF r.ok THEN "" ELSE "CapacityExhausted",
                a |-> r.a, addr |-> IF r.ok THEN r.addr ELSE invalid_address]
               : r \in {allocateEach(a, count, allowsFreeingFlag)}})

\* The allocate call allocateDescriptorOffsets makes on the allocator `a` of a
\* channel for which the layout declares `count` descriptors: none when the
\* layout does not use the channel; a LayoutMismatch when the pool has no
\* capacity for it; a CapacityExhausted when allocate returns invalid_address.
tryChannel(a, count, allowsFreeingFlag) ==
    IF count = 0
    THEN [err |-> "", a |-> a, addr |-> AllBitsSet]
    ELSE IF a.tag = "none"
    THEN [err |-> "LayoutMismatch", a |-> a, addr |-> AllBitsSet]
    ELSE Only({[err |-> IF r.addr = invalid_address THEN "CapacityExhausted" ELSE "",
                a |-> r.a, addr |-> r.addr]
               : r \in {allocate(a, count, allowsFreeingFlag)}})

\* The index of the first channel whose call failed, Len(ChannelOrder) + 1
\* when none did
firstFailure(tried) ==
    IF \A c \in Channels : tried[c].err = ""
    THEN Len(ChannelOrder) + 1
    ELSE CHOOSE i \in 1..Len(ChannelOrder) :
            /\ tried[ChannelOrder[i]].err # ""
            /\ \A j \in 1..(i - 1) : tried[ChannelOrder[j]].err = ""

\* The outcome of the walk that stops at index `stop`
offsetsUpTo(allocators, tried, stop) ==
    [err |-> IF stop > Len(ChannelOrder) THEN "" ELSE tried[ChannelOrder[stop]].err,
     allocators |-> [c \in Channels |->
                        IF channelIndex(c) <= stop THEN tried[c].a ELSE allocators[c]],
     offsets |-> [c \in Channels |->
                     IF channelIndex(c) < stop /\ tried[c].addr # invalid_address
                     THEN tried[c].addr
                     ELSE SDescriptorOffsets[c]]]

\* allocateDescriptorOffsets(layout): the channels are walked in index order;
\* every channel the layout uses gets one allocate call for its total count,
\* up to the first channel that fails. `offsets` holds what was allocated.
allocateDescriptorOffsets(allocators, layout, flags) ==
    Only({offsetsUpTo(allocators, tried, firstFailure(tried))
          : tried \in {[c \in Channels |->
                           tryChannel(allocators[c], layout[c], allowsFreeing(flags))]}})

RECURSIVE allocateBatch(_, _, _, _)
\* The offset tables of the layouts of one createDescriptorSets call, in
\* order, up to the first failure
allocateBatch(allocators, layouts, flags, done) ==
    IF layouts = <<>>
    THEN [err |-> "", allocators |-> allocators, offsets |-> done]
    ELSE Only({IF r.err # ""
               THEN [err |-> r.err, allocators |-> r.allocators,
                     offsets |-> Append(done, r.offsets)]
               ELSE allocateBatch(r.allocators, Tail(layouts), flags, Append(done, r.offsets))
               : r \in {allocateDescriptorOffsets(allocators, Head(layouts), flags)}})

\* Every range of an offset table goes back to its allocator; the entries
\* that are ~0u are skipped
releaseOffsets(allocators, layout, offsets) ==
    [c \in Channels |->
        IF offsets[c] = AllBitsSet
        THEN allocators[c]
        ELSE free(allocators[c], offsets[c], layout[c])]

RECURSIVE releaseBatch(_, _, _)
releaseBatch(allocators, layouts, offsetTables) ==
    IF offsetTables = <<>>
    THEN allocators
    ELSE releaseBatch(releaseOffsets(allocators, Head(layouts), Head(offsetTables)),
                      Tail(layouts), Tail(offsetTables))

\* The offset tables of a failed call hold the ranges of a layout that had
\* been allocated in full before the layout that failed
undoesWholeSet(offsetTables) ==
    /\ Len(offsetTables) >= 2
    /\ \E c \in Channels : offsetTables[1][c] # AllBitsSet

\* Faulty variant: the ranges are freed whatever the creation flags
rollback_frees(before, after, layouts, offsetTables, flags) ==
    releaseBatch(after, layouts, offsetTables)

\* The rollback of a failed createDescriptorSets call: with the general
\* allocators every range allocated by the call is freed; the linear
\* allocators, which cannot free, go back to the cursors they had
rollback(before, after, layouts, offsetTables, flags) ==
    IF allowsFreeing(flags)
    THEN releaseBatch(after, layouts, offsetTables)
    ELSE before

\* The layout declares descriptors on a channel the pool reserved nothing
\* for, so that no allocator was constructed for it
referencesUnreserved(allocators, layout) ==
    \E c \in Channels : layout[c] > 0 /\ allocators[c].tag = "none"

\* createDescriptorSets(count, layouts, output) on a pool with `liveCount`
\* sets alive: a LayoutMismatch when a layout of the batch uses a channel
\* without capacity, a CapacityExhausted when the pool cannot hold that many
\* more sets or an allocator cannot serve a layout
createDescriptorSets(allocators, layouts, flags, liveCount, maxSets) ==
    IF \E j \in 1..Len(layouts) : referencesUnreserved(allocators, layouts[j])
    THEN [ok |-> FALSE, err |-> "LayoutMismatch", allocators |-> allocators,
          offsets |-> <<>>, undone |-> FALSE]
    ELSE IF liveCount + Len(layouts) > maxSets
    THEN [ok |-> FALSE, err |-> "CapacityExhausted", allocators |-> allocators,
          offsets |-> <<>>, undone |-> FALSE]
    ELSE Only({IF r.err = ""
               THEN [ok |-> TRUE, err |-> "", allocators |-> r.allocators,
                     offsets |-> r.offsets, undone |-> FALSE]
               ELSE [ok |-> FALSE, err |-> r.err,
                     allocators |-> rollback(allocators, r.allocators, layouts, r.offsets, flags),
                     offsets |-> <<>>, undone |-> undoesWholeSet(r.offsets)]
               : r \in {allocateBatch(allocators, layouts, flags, <<>>)}})

\* Faulty variant: the capacity reported is one set short
getCapacity_short == m_maxSets - 1

\* inline uint32_t getCapacity() const { return m_maxSets; }
getCapacity == m_maxSets

\* The identifiers of the descriptor sets of the pool
SetIds == 1..m_maxSets

LiveSets == {id \in SetIds : descriptorSets[id].live}

\* The n-th identifier, in increasing order, that no live set uses
nthFreeId(n) ==
    CHOOSE id \in SetIds \ LiveSets : Cardinality({x \in SetIds \ LiveSets : x < id}) = n - 1

\* The indices of array s that the sets created with `layouts` at
\* `offsetTables` use
batchSlots(s, layouts, offsetTables, maxCount) ==
    UNION {storageSlots(s, layouts[j], offsetTables[j], maxCount) : j \in 1..Len(offsetTables)}

\* A layout of the batch declares descriptors of a type of which the pool
\* reserved none (m_maxDescriptorCount 0), or mutable samplers when the count
\* read at index ET_COUNT was 0
declaresZeroCapacity(layouts) ==
    \E j \in 1..Len(layouts), c \in Channels :
        /\ layouts[j][c] > 0
        /\ IF c \in Kinds
           THEN m_maxDescriptorCount[c] = 0
           ELSE m_descriptorAllocators[c].reserved = 0

\* An empty smart_refctd_ptr<IGPUDescriptorSet>
NoSet == 0

\* Faulty variant: nullptr is returned whatever createDescriptorSets returned
createDescriptorSet_retval_null(result, output) == NoSet

\* if (result) return set; else return nullptr;
createDescriptorSet_retval(result, output) ==
    IF result THEN output[1] ELSE NoSet

\* The sets created at `offsetTables`, as they are written to `output`
outputOf(offsetTables) == [j \in 1..Len(offsetTables) |-> nthFreeId(j)]

\* What a caller of createDescriptorSets(Len(layouts), layouts, output)
\* gets back, directly or, `single`, through createDescriptorSet: the sets
\* written to `output` and the set createDescriptorSet returns
createdBy(layouts, single) ==
    Only({[count |-> Len(layouts), single |-> single, output |-> outputOf(r.offsets),
           set |-> IF single
                   THEN createDescriptorSet_retval(r.ok, outputOf(r.offsets))
                   ELSE NoSet]
          : r \in {createDescriptorSets(m_descriptorAllocators, layouts, m_flags,
                                        Cardinality(LiveSets), m_maxSets)}})

NothingCreated == [count |-> 0, single |-> FALSE, output |-> <<>>, set |-> NoSet]

\* The pool after createDescriptorSets(Len(layouts), layouts, output)
Pool_create(layouts) ==
    \E r \in {createDescriptorSets(m_descriptorAllocators, layouts, m_flags,
                                    Cardinality(LiveSets), m_maxSets)} :
        /\ m_descriptorAllocators' = r.allocators
        /\ descriptorSets' =
              [id \in SetIds |->
                  IF \E j \in 1..Len(r.offsets) : nthFreeId(j) = id
                  THEN Only({[live |-> TRUE, layout |-> layouts[j], offsets |-> r.offsets[j]]
                             : j \in {x \in 1..Len(r.offsets) : nthFreeId(x) = id}})
                  ELSE descriptorSets[id]]
        /\ \E slots \in {[s \in StorageArrays |->
                               batchSlots(s, layouts, r.offsets, m_maxDescriptorCount)]} :
              /\ constructed' =
                    [s \in StorageArrays |->
                        constructed[s] \cup {x \in slots[s] : x < m_storageSize[s]}]
              /\ stored' =
                    [s \in StorageArrays |->
                        {e \in stored[s] : e[1] \notin slots[s] \/ e[1] >= m_storageSize[s]}]
              /\ undefinedBehaviour' =
                    (undefinedBehaviour
                        \/ \E s \in StorageArrays : \E x \in slots[s] : x >= m_storageSize[s])
        /\ poolResult' = [op |-> "createDescriptorSets", ok |-> r.ok, err |-> r.err,
                          undone |-> r.undone,
                          zeroCapacity |-> declaresZeroCapacity(layouts)]
        /\ UNCHANGED <<requested, m_flags, m_maxSets, m_maxDescriptorCount, m_storageSize, written,
                       lifetime>>

\* bool createDescriptorSets(count, layouts, output)
Pool_createDescriptorSets(layouts) ==
    /\ Pool_create(layouts)
    /\ UNCHANGED <<created, cacheVars, allocVars>>

\* createDescriptorSet(layout): createDescriptorSets(1, &layout.get(), &set);
\* it returns the set if that returned true and nullptr otherwise, so that
\* poolResult.ok tells which
Pool_createDescriptorSet(layout) ==
    /\ Pool_create(<<layout>>)
    /\ UNCHANGED <<created, cacheVars, allocVars>>

\* The same two calls made by a caller whose results are watched
Caller_createDescriptorSets(layouts) ==
    /\ Pool_create(layouts)
    /\ created' = createdBy(layouts, FALSE)
    /\ UNCHANGED <<cacheVars, allocVars>>

Caller_createDescriptorSet(layout) ==
    /\ Pool_create(<<layout>>)
    /\ created' = createdBy(<<layout>>, TRUE)
    /\ UNCHANGED <<cacheVars, allocVars>>

RECURSIVE releaseSets(_, _)
\* The allocators after the ranges of the sets `ids` went back to them
releaseSets(allocators, ids) ==
    IF ids = {}
    THEN allocators
    ELSE LET id == CHOOSE x \in ids : \A y \in ids : x <= y
         IN  releaseSets(releaseOffsets(allocators, descriptorSets[id].layout,
                                        descriptorSets[id].offsets),
                         ids \ {id})

\* The handles stored, through the offset tables of the sets `ids`, past the
\* end of their array: what their destruction leaves there is undefined
pastTheEnd(ids) ==
    {<<s, e>> \in UNION {{s} \X stored[s] : s \in StorageArrays} :
        /\ e[1] >= m_storageSize[s]
        /\ e[1] \in UNION {storageSlots(s, descriptorSets[id].layout,
                                          descriptorSets[id].offsets,
                                          m_maxDescriptorCount) : id \in ids}}

\* The slots <<array, index>> of the sets `ids` that lie in their array and
\* hold no constructed descriptor
notConstructed(ids) ==
    UNION {{<<s, x>> : x \in {y \in storageSlots(s, descriptorSets[id].layout,
                                                  descriptorSets[id].offsets,
                                                  m_maxDescriptorCount) :
                                 y < m_storageSize[s] /\ y \notin constructed[s]}}
           : s \in StorageArrays, id \in ids}

\* bool freeDescriptorSets(descriptorSetCount, descriptorSets): an
\* InvalidOperation on a pool created without ECF_FREE_DESCRIPTOR_SET_BIT;
\* otherwise the descriptors stored in the ranges of every set are destructed
\* and the ranges are freed.
Pool_freeDescriptorSets(ids) ==
    /\ ids # {}
    /\ ids \subseteq LiveSets
    /\ IF allowsFreeing(m_flags)
       THEN /\ m_descriptorAllocators' = releaseSets(m_descriptorAllocators, ids)
            /\ descriptorSets' =
                  [id \in SetIds |-> IF id \in ids THEN NoDescriptorSet ELSE descriptorSets[id]]
            /\ constructed' =
                  [s \in StorageArrays |->
                      constructed[s] \ UNION {storageSlots(s, descriptorSets[id].layout,
                                                           descriptorSets[id].offsets,
                                                           m_maxDescriptorCount) : id \in ids}]
            /\ \E left \in SUBSET pastTheEnd(ids) :
                  stored' =
                     [s \in StorageArrays |->
                         {e \in stored[s] :
                             \/ <<s, e>> \in left
                             \/ e[1] \notin UNION {storageSlots(s, descriptorSets[id].layout,
                                                                descriptorSets[id].offsets,
                                                                m_maxDescriptorCount) : id \in ids}}]
            /\ written' = {w \in written : w[1] \notin ids}
            /\ lifetime' = [lifetime EXCEPT !.twice = @ \cup notConstructed(ids)]
            /\ poolResult' = [op |-> "freeDescriptorSets", ok |-> TRUE, err |-> "", undone |-> FALSE,
                               zeroCapacity |-> FALSE]
       ELSE /\ poolResult' = [op |-> "freeDescriptorSets", ok |-> FALSE,
                              err |-> "InvalidOperation", undone |-> FALSE,
                              zeroCapacity |-> FALSE]
            /\ UNCHANGED <<m_descriptorAllocators, descriptorSets, constructed, stored, written,
                           lifetime>>
    /\ UNCHANGED <<requested, m_flags, m_maxSets, m_maxDescriptorCount, m_storageSize, undefinedBehaviour,
                   created>>
    /\ UNCHANGED <<cacheVars, allocVars>>

\* The destruction of a set of a pool that cannot free: the descriptors in
\* the ranges of its offset table are destructed, the entries that are ~0u
\* being skipped; the ranges stay with the linear allocators. (On a pool
\* that can free, the destruction of a set is what freeDescriptorSets does
\* for it.)
Set_destroy(id) ==
    /\ id \in LiveSets
    /\ ~allowsFreeing(m_flags)
    /\ descriptorSets' = [descriptorSets EXCEPT ![id] = NoDescriptorSet]
    /\ constructed' =
          [s \in StorageArrays |->
              constructed[s] \ storageSlots(s, descriptorSets[id].layout,
                                            descriptorSets[id].offsets, m_maxDescriptorCount)]
    /\ stored' =
          [s \in StorageArrays |->
              {e \in stored[s] :
                  e[1] \notin storageSlots(s, descriptorSets[id].layout,
                                           descriptorSets[id].offsets, m_maxDescriptorCount)}]
    /\ written' = {w \in written : w[1] # id}
    /\ lifetime' = [lifetime EXCEPT !.twice = @ \cup notConstructed({id})]
    /\ poolResult' = [op |-> "destroySet", ok |-> TRUE, err |-> "", undone |-> FALSE,
                      zeroCapacity |-> FALSE]
    /\ UNCHANGED <<requested, m_flags, m_maxSets, m_maxDescriptorCount, m_descriptorAllocators,
                   m_storageSize, undefinedBehaviour, created>>
    /\ UNCHANGED <<cacheVars, allocVars>>

\* virtual ~IDescriptorPool() {}, then the destruction of the members: the
\* allocators go, and the arrays are released as arrays of StorageTrivializer,
\* whose elements have nothing to destruct. No descriptor is destructed: the
\* slots that held one keep it, and `constructed` is what is left behind.
Pool_destroy ==
    /\ ~lifetime.destroyed
    /\ lifetime' = [lifetime EXCEPT !.destroyed = TRUE]
    /\ poolResult' = [op |-> "destroy", ok |-> TRUE, err |-> "", undone |-> FALSE,
                      zeroCapacity |-> FALSE]
    /\ UNCHANGED <<requested, m_flags, m_maxSets, m_maxDescriptorCount, m_descriptorAllocators,
                   m_storageSize, constructed, undefinedBehaviour, descriptorSets, stored,
                   written, created>>
    /\ UNCHANGED <<cacheVars, allocVars>>

\* The handles a descriptor can hold
Handles == {"handleA", "handleB"}

\* An empty smart_refctd_ptr
NoHandle == "nullptr"

\* The index, in the array of channel c, of element i of the range of set id
slotOf(id, c, i) ==
    storageBase(c, m_maxDescriptorCount) + descriptorSets[id].offsets[c] + i

\* The handle held by slot `index` of array s
handleAt(storage, s, index) ==
    IF \E e \in storage[s] : e[1] = index
    THEN Only({e[2] : e \in {x \in storage[s] : x[1] = index}})
    ELSE NoHandle

\* The bindings <<set, channel, element>> of the live sets
Bindings ==
    {<<id, c, i>> \in LiveSets \X Channels \X (0..(MaxDescriptors - 1)) :
        /\ descriptorSets[id].offsets[c] # AllBitsSet
        /\ i < descriptorSets[id].layout[c]}

\* A write of handle h to element i of channel c of set id, through the
\* offset table of the set. A write past the end of the array is undefined:
\* the slot may then read as any handle or as none.
Pool_write(id, c, i, h) ==
    /\ <<id, c, i>> \in Bindings
    /\ \E s \in {storageOf(c)}, index \in {slotOf(id, c, i)} :
          \E v \in IF index < m_storageSize[s] THEN {h} ELSE Handles \cup {NoHandle} :
             /\ stored' = [stored EXCEPT ![s] =
                              {e \in stored[s] : e[1] # index}
                                 \cup (IF v = NoHandle THEN {} ELSE {<<index, v>>})]
             /\ undefinedBehaviour' = (undefinedBehaviour \/ index >= m_storageSize[s])
    /\ written' = {w \in written : <<w[1], w[2], w[3]>> # <<id, c, i>>} \cup {<<id, c, i, h>>}
    /\ poolResult' = [op |-> "write", ok |-> TRUE, err |-> "", undone |-> FALSE,
                      zeroCapacity |-> FALSE]
    /\ UNCHANGED <<requested, m_flags, m_maxSets, m_maxDescriptorCount, m_descriptorAllocators,
                   m_storageSize, constructed, descriptorSets, created, lifetime>>
    /\ UNCHANGED <<cacheVars, allocVars>>

(***************************************************************************)
(* Construction of the pool and the two specifications.                    *)
(***************************************************************************)
\* The state after IDescriptorPool(dev, flags, maxSets, poolSizeCount, poolSizes);
\* `beyond` is the word read at m_maxDescriptorCount[ET_COUNT]
PoolConstructed(flags, maxSets, poolSizes, beyond) ==
    /\ requested = poolSizes
    /\ m_flags = flags
    /\ m_maxSets = maxSets
    /\ m_maxDescriptorCount = maxDescriptorCountOf(poolSizes)
    /\ m_descriptorAllocators =
          descriptorAllocatorsOf(maxDescriptorCountOf(poolSizes), beyond, flags)
    /\ m_storageSize = storageSizesOf(maxDescriptorCountOf(poolSizes))
    /\ constructed = [s \in StorageArrays |-> {}]
    /\ undefinedBehaviour = FALSE
    /\ descriptorSets = [id \in 1..maxSets |-> NoDescriptorSet]
    /\ stored = [s \in StorageArrays |-> {}]
    /\ written = {}
    /\ poolResult = [op |-> "none", ok |-> TRUE, err |-> "", undone |-> FALSE,
                     zeroCapacity |-> FALSE]
    /\ created = NothingCreated
    /\ lifetime = [destroyed |-> FALSE, twice |-> {}]

\* The creation flags the pools under check are built with
FlagChoices == {{}, {"ECF_FREE_DESCRIPTOR_SET_BIT"}}

\* The capacity requests the pools under check are built with
PoolSizeChoices ==
    {<<[type |-> "ET_STORAGE_BUFFER", count |-> MaxDescriptors - 1],
       [type |-> "ET_UNIFORM_BUFFER", count |-> 1],
       [type |-> "ET_STORAGE_BUFFER", count |-> 1]>>,
     <<[type |-> "ET_STORAGE_TEXEL_BUFFER", count |-> 1]>>,
     <<[type |-> "ET_COMBINED_IMAGE_SAMPLER", count |-> MaxDescriptors - 1]>>}

\* The words that may lie one past the end of m_maxDescriptorCount
WordsBeyond == {0, 1, AllBitsSet}

\* The layouts the sets under check are created with
Layouts ==
    {layoutOf({<<"ET_STORAGE_BUFFER", 1>>}),
     layoutOf({<<"ET_STORAGE_BUFFER", 2>>}),
     layoutOf({<<"ET_UNIFORM_BUFFER", 1>>, <<"ET_STORAGE_BUFFER", 1>>}),
     layoutOf({<<"ET_STORAGE_TEXEL_BUFFER", 1>>}),
     layoutOf({<<"ET_COMBINED_IMAGE_SAMPLER", 1>>, <<MutableSamplers, 1>>})}

\* The batches of layouts handed to one createDescriptorSets call
Batches == UNION {[1..n -> Layouts] : n \in 1..MaxBatch}

\* The pool the transform tree manager creates for its cache: SharedBindingCount
\* storage buffers for each of DescriptorCacheSize sets
CachePoolSizes ==
    <<[type |-> "ET_STORAGE_BUFFER", count |-> SharedBindingCount * DescriptorCacheSize]>>

(***************************************************************************)
(* One allocator_state_t, called as the pool calls it: allocate with the   *)
(* allowsFreeing it was constructed with, free only when that is true.     *)
(***************************************************************************)
\* The largest capacity of the allocators under check
MaxCapacity == MaxDescriptors + 1

\* The addresses of the range [offset, offset + count)
addressesOf(offset, count) == {offset + i : i \in 0..(count - 1)}

\* The state after allocator_state_t(maxDescriptorCount, allowsFreeing)
AllocConstructed(maxDescriptorCount, allowsFreeingFlag) ==
    /\ alloc_state = allocator_state_t(maxDescriptorCount, allowsFreeingFlag)
    /\ alloc_max = maxDescriptorCount
    /\ alloc_freeing = allowsFreeingFlag
    /\ alloc_live = {}
    /\ alloc_last = [op |-> "none", count |-> 0, addr |-> invalid_address,
                     clash |-> FALSE, afterFree |-> FALSE, failedFast |-> FALSE, phase |-> 0,
                     joined |-> 0, wasFull |-> FALSE]

\* No allocator is under check
NoAllocatorUnderCheck == AllocConstructed(0, FALSE)

\* No pool is under check
NoPoolUnderCheck == PoolConstructed({}, 0, <<>>, 0)

\* How far the calls on a fresh general allocator of 4 addresses have
\* followed allocate(3), allocate(2), free(0, 1), allocate(2)
phaseAfter(op, offset, count) ==
    IF alloc_max = 4 /\ alloc_freeing
    THEN CASE alloc_last.op = "none" /\ op = "allocate" /\ count = 3 -> 1
           [] alloc_last.phase = 1 /\ op = "allocate" /\ count = 2 -> 2
           [] alloc_last.phase = 2 /\ op = "free" /\ offset = 0 /\ count = 1 -> 3
           [] alloc_last.phase = 3 /\ op = "allocate" /\ count = 2 -> 4
           [] OTHER -> 0
    ELSE 0

\* The addresses not handed out, by the record of the calls
NotHandedOut == (0..(alloc_max - 1)) \ alloc_live

\* The addresses around [offset, offset + count) that were not handed out
\* and reach the range without a gap
runAround(offset, count) ==
    {x \in NotHandedOut :
        \/ x < offset /\ \A y \in x..(offset - 1) : y \in NotHandedOut
        \/ x >= offset + count /\ \A y \in (offset + count)..x : y \in NotHandedOut}

\* What a free of a range that was handed out joins: the size of the free
\* run the range becomes part of, when addresses next to it were free; 0
\* otherwise
joinedBy(offset, count) ==
    IF addressesOf(offset, count) \subseteq alloc_live /\ runAround(offset, count) # {}
    THEN count + Cardinality(runAround(offset, count))
    ELSE 0

\* allocate(count, allowsFreeing)
Alloc_allocate(count) ==
    /\ \E r \in allocateOutcomes(alloc_state, count, alloc_freeing) :
          /\ alloc_state' = r.a
          /\ alloc_live' = IF r.addr # invalid_address
                           THEN alloc_live \cup addressesOf(r.addr, count)
                           ELSE alloc_live
          /\ alloc_last' = [op |-> "allocate", count |-> count, addr |-> r.addr,
                            clash |-> (r.addr # invalid_address
                                         /\ addressesOf(r.addr, count) \cap alloc_live # {}),
                            afterFree |-> (/\ alloc_last.op = "free"
                                           /\ ~alloc_last.failedFast
                                           /\ alloc_last.count = count),
                            failedFast |-> FALSE,
                            phase |-> phaseAfter("allocate", 0, count),
                            joined |-> (IF alloc_last.op = "free" THEN alloc_last.joined ELSE 0),
                            wasFull |-> (alloc_last.wasFull
                                           \/ alloc_live' = 0..(alloc_max - 1))]
    /\ UNCHANGED <<alloc_max, alloc_freeing, cacheVars, poolVars>>

\* free(allocatedOffset, count), of a range that is allocated (a range handed
\* out, or a part of one) or of one that is not
Alloc_free(allocatedOffset, count) ==
    /\ alloc_freeing
    /\ alloc_state' = free(alloc_state, allocatedOffset, count)
    /\ alloc_live' = IF addressesOf(allocatedOffset, count) \subseteq alloc_live
                     THEN alloc_live \ addressesOf(allocatedOffset, count)
                     ELSE alloc_live
    /\ alloc_last' = [op |-> "free", count |-> count, addr |-> allocatedOffset,
                      clash |-> FALSE, afterFree |-> FALSE,
                      failedFast |-> notAllocated(alloc_state, allocatedOffset, count),
                      phase |-> phaseAfter("free", allocatedOffset, count),
                      joined |-> joinedBy(allocatedOffset, count),
                      wasFull |-> alloc_last.wasFull]
    /\ UNCHANGED <<alloc_max, alloc_freeing, cacheVars, poolVars>>

CacheInit ==
    /\ CacheConstructed
    /\ NoAllocatorUnderCheck
    /\ \E beyond \in WordsBeyond :
          PoolConstructed({"ECF_UPDATE_AFTER_BIND_BIT"}, DescriptorCacheSize, CachePoolSizes, beyond)

CacheStep ==
    \/ \E e \in EntryPoints, f \in Fences : TTM_acquireSet(e, f)
    \/ \E e \in EntryPoints : TTM_returnFalse(e)
    \/ \E e \in EntryPoints : TTM_updateDescriptorSets(e)
    \/ \E e \in EntryPoints : TTM_bindAndDispatch(e)
    \/ \E e \in EntryPoints : TTM_releaseSet(e)
    \/ \E count \in 1..SharedBindingCount : User_acquireSet(count)
    \/ User_continue
    \/ \E setIx \in held, f \in Fences : User_releaseSet(setIx, f)
    \/ \E setIx \in Slots \cup IndicesOutOfRange, f \in Fences :
          User_releaseSetNotAcquired(setIx, f)
    \/ Cache_poll
    \/ \E f \in Fences : Device_signal(f)

CacheNext == CacheStep /\ UNCHANGED <<poolVars, allocVars>>

CacheSpec == CacheInit /\ [][CacheNext]_vars

PoolInit ==
    /\ CacheConstructed
    /\ NoAllocatorUnderCheck
    /\ \E flags \in FlagChoices, poolSizes \in PoolSizeChoices, beyond \in WordsBeyond :
          PoolConstructed(flags, MaxSets, poolSizes, beyond)

PoolNext ==
    \/ \E layouts \in Batches : Pool_createDescriptorSets(layouts)
    \/ \E layout \in Layouts : Pool_createDescriptorSet(layout)
    \/ \E ids \in SUBSET LiveSets : Pool_freeDescriptorSets(ids)

PoolSpec == PoolInit /\ [][PoolNext]_vars

\* The values of _maxSets of the pools of the watched caller: a single set,
\* and fewer sets than there are descriptors
MaxSetsChoices == {1, MaxSets - 1}

\* The capacity requests of its pools
CallerPoolSizeChoices ==
    {<<[type |-> "ET_STORAGE_BUFFER", count |-> MaxDescriptors],
       [type |-> "ET_UNIFORM_BUFFER", count |-> 1]>>}

CallerInit ==
    /\ CacheConstructed
    /\ NoAllocatorUnderCheck
    /\ \E flags \in FlagChoices, maxSets \in MaxSetsChoices, poolSizes \in CallerPoolSizeChoices,
          beyond \in WordsBeyond :
          PoolConstructed(flags, maxSets, poolSizes, beyond)

\* The layouts it asks for: those of buffers
CallerLayouts ==
    {layout \in Layouts : layout["ET_STORAGE_BUFFER"] > 0}

CallerBatches == UNION {[1..n -> CallerLayouts] : n \in 1..MaxBatch}

CallerNext ==
    \/ \E layouts \in CallerBatches : Caller_createDescriptorSets(layouts)
    \/ \E layout \in CallerLayouts : Caller_createDescriptorSet(layout)
    \/ \E id \in LiveSets : Pool_freeDescriptorSets({id})

CallerSpec == CallerInit /\ [][CallerNext]_vars

\* The poolSizes arrays of the pools whose construction is checked: up to
\* MaxPoolSizes requests, which may name a type again, of one descriptor or
\* of as many as a word can count; the pools hold one set
RequestChoices ==
    UNION {[1..n -> [type : {"ET_STORAGE_BUFFER", "ET_STORAGE_TEXEL_BUFFER"},
                     count : {1, AllBitsSet}]] : n \in 0..MaxPoolSizes}

ConstructInit ==
    /\ CacheConstructed
    /\ NoAllocatorUnderCheck
    /\ \E flags \in FlagChoices, poolSizes \in RequestChoices :
          PoolConstructed(flags, 1, poolSizes, 0)

ConstructNext ==
    \/ \E layout \in Layouts : Pool_createDescriptorSet(layout)
    \/ \E id \in LiveSets : Pool_freeDescriptorSets({id})

ConstructSpec == ConstructInit /\ [][ConstructNext]_vars

\* The capacity requests of the pools whose storage is written
StoragePoolSizeChoices ==
    {<<[type |-> "ET_UNIFORM_BUFFER", count |-> 1],
       [type |-> "ET_STORAGE_BUFFER", count |-> MaxDescriptors - 1]>>,
     <<[type |-> "ET_STORAGE_TEXEL_BUFFER", count |-> 1]>>}

StorageInit ==
    /\ CacheConstructed
    /\ NoAllocatorUnderCheck
    /\ \E flags \in FlagChoices, poolSizes \in StoragePoolSizeChoices, beyond \in WordsBeyond :
          PoolConstructed(flags, MaxSets, poolSizes, beyond)

StorageNext ==
    \/ \E layout \in Layouts : Pool_createDescriptorSet(layout)
    \/ \E id \in LiveSets : Pool_freeDescriptorSets({id})
    \/ \E b \in Bindings, h \in Handles : Pool_write(b[1], b[2], b[3], h)

StorageSpec == StorageInit /\ [][StorageNext]_vars

\* The pools whose whole life is followed, from construction to destruction
LifetimeInit ==
    /\ CacheConstructed
    /\ NoAllocatorUnderCheck
    /\ \E flags \in FlagChoices, poolSizes \in CallerPoolSizeChoices :
          PoolConstructed(flags, MaxSets, poolSizes, 0)

\* Nothing is called on a pool that was destroyed
LifetimeNext ==
    \/ \E layouts \in CallerBatches :
          ~lifetime.destroyed /\ Pool_createDescriptorSets(layouts)
    \/ \E id \in LiveSets : ~lifetime.destroyed /\ Pool_freeDescriptorSets({id})
    \/ \E id \in LiveSets : ~lifetime.destroyed /\ Set_destroy(id)
    \/ Pool_destroy

LifetimeSpec == LifetimeInit /\ [][LifetimeNext]_vars

AllocInit ==
    /\ CacheConstructed
    /\ NoPoolUnderCheck
    /\ \E maxDescriptorCount \in 1..MaxCapacity, allowsFreeingFlag \in BOOLEAN :
          AllocConstructed(maxDescriptorCount, allowsFreeingFlag)

AllocNext ==
    \/ \E count \in 0..(MaxCapacity + 1) : Alloc_allocate(count)
    \/ \E allocatedOffset \in 0..MaxCapacity, count \in 1..MaxCapacity :
          Alloc_free(allocatedOffset, count)

AllocSpec == AllocInit /\ [][AllocNext]_vars

\* The allocators of every capacity, 0 included
AnyAllocInit ==
    /\ CacheConstructed
    /\ NoPoolUnderCheck
    /\ \E maxDescriptorCount \in 0..MaxCapacity, allowsFreeingFlag \in BOOLEAN :
          AllocConstructed(maxDescriptorCount, allowsFreeingFlag)

AnyAllocNext ==
    \/ \E count \in 0..(MaxCapacity + 1) : Alloc_allocate(count)
    \/ \E allocatedOffset \in 0..MaxCapacity, count \in 1..MaxCapacity :
          alloc_state.tag = "general" /\ Alloc_free(allocatedOffset, count)

AnyAllocSpec == AnyAllocInit /\ [][AnyAllocNext]_vars

(***************************************************************************)
(* Properties of the descriptor set cache.                                 *)
(***************************************************************************)
\* Slot i is RELEASED-PENDING on a fence that has not signalled
BusyPending(i) ==
    i \in Slots /\ slotState[i] = "PENDING" /\ slotToken[i] \notin signalled

\* The step is the acquire call of entry point e / of the direct user
TTM_acquires(e) == pc[e] = "idle" /\ pc'[e] # "idle"
User_acquires == userPc = "idle" /\ userPc' = "returned"

\* The callers that hold slot s
Holders(s) ==
    {e \in EntryPoints : pc[e] \in {"update", "record", "release"} /\ dsix[e] = s}
        \cup (IF s \in held THEN {"user"} ELSE {})

\* C1: an acquire never returns the index of a slot that is, when it is
\* called, RELEASED-PENDING on a fence that has not signalled, whatever the
\* order of the acquire, release and poll calls and of the fence signals.
C1_AcquireNeverReturnsBusyPending ==
    [][ /\ \A e \in EntryPoints : TTM_acquires(e) => ~BusyPending(dsix'[e])
        /\ User_acquires => ~BusyPending(userRet') ]_vars

\* C1 witness: an acquire has just returned a slot while another slot is
\* RELEASED-PENDING on a fence that has not signalled.
C1_Witness ==
    /\ userPc = "returned"
    /\ userRet \in Slots
    /\ \E j \in Slots : BusyPending(j)

\* C2: the host never writes the storage of a set that is RELEASED-PENDING on
\* a fence that has not signalled, nor of a set that device work guarded by
\* such a fence still reads.
C2_NoHostWriteBeforeTokenSatisfied ==
    [][ \A s \in hostWrite' :
            /\ ~BusyPending(s)
            /\ \A w \in inFlight : w[1] # s ]_vars

\* C2 witness: a set that was released, whose fence signalled and which was
\* reclaimed, is written again by the host.
C2_Witness ==
    /\ scenario.phase = "acquired"
    /\ scenario.slot \in Slots
    /\ hostWrite = {scenario.slot}

\* C3: no slot is held by two callers at once, every held slot is ACQUIRED,
\* and an acquire never returns an index that is ACQUIRED when it is called.
C3_AtMostOneHolder ==
    /\ [](\A s \in Slots : /\ Cardinality(Holders(s)) <= 1
                            /\ Holders(s) # {} => slotState[s] = "ACQUIRED")
    /\ [][ /\ \A e \in EntryPoints :
                TTM_acquires(e) /\ dsix'[e] \in Slots => slotState[dsix'[e]] # "ACQUIRED"
           /\ User_acquires /\ userRet' \in Slots => slotState[userRet'] # "ACQUIRED" ]_vars

\* C3 witness: every slot has a holder, and an entry point and the direct
\* user are among the holders.
C3_Witness ==
    /\ \A s \in Slots : Holders(s) # {}
    /\ \E e \in EntryPoints : pc[e] \in {"update", "record", "release"}
    /\ held # {}

\* C8: on a fresh cache the first CacheCapacity acquires return pairwise
\* distinct valid indices and the next one returns invalid_index.
C8_FreshCacheAcquires ==
    history.open =>
        LET log == history.log
        IN  /\ \A k \in 1..Len(log) : k <= CacheCapacity => log[k] \in Slots
            /\ \A j, k \in 1..Len(log) : j < k /\ k <= CacheCapacity => log[j] # log[k]
            /\ Len(log) = CacheCapacity + 1 => log[CacheCapacity + 1] = invalid_index

\* C8 witness: CacheCapacity + 1 acquires were made on the fresh cache.
C8_Witness == history.open /\ Len(history.log) = CacheCapacity + 1

\* C9: with every slot held, after one slot is released with a fence that
\* has already signalled and the cache is polled, the next acquire returns
\* the index of that slot.
C9_ReleasedSlotIsReused ==
    scenario.phase = "acquired" => scenario.ret = scenario.slot

\* C9 witness: the release, the poll and the acquire have happened.
C9_Witness == scenario.phase = "acquired"

\* C10: an acquire returns invalid_index only when no slot is FREE and no
\* RELEASED-PENDING slot has a signalled fence; when no slot is FREE and one
\* is reclaimable, the acquire reclaims and returns a reclaimable slot.
C10_InvalidOnlyWhenExhausted ==
    [][ LET found == acquireFound(slotState, slotToken, signalled)
            ok(ret) == /\ ret = invalid_index => found = "exhausted"
                       /\ found = "reclaimable" =>
                             /\ ret \in Reclaimable(slotState, slotToken, signalled)
                             /\ slotState'[ret] = "ACQUIRED"
        IN  /\ \A e \in EntryPoints : TTM_acquires(e) => ok(dsix'[e])
            /\ User_acquires => ok(userRet') ]_vars

\* C10 witness: an acquire that found no FREE slot reclaimed one and
\* returned it.
C10_Witness ==
    /\ acquirePre = "reclaimable"
    /\ userPc = "returned"
    /\ userRet \in Slots

(***************************************************************************)
(* Properties of the descriptor pool.                                      *)
(***************************************************************************)
\* The step is a createDescriptorSets call, through either entry point, that
\* returned failure
CreateFailed ==
    /\ poolResult'.op = "createDescriptorSets"
    /\ ~poolResult'.ok

\* Set id holds a range of channel c
HasRange(id, c) == descriptorSets[id].live /\ descriptorSets[id].offsets[c] # AllBitsSet

RECURSIVE outstanding(_, _)
\* The sum of the counts of the ranges of channel c held by the sets 1..n
outstanding(c, n) ==
    IF n = 0
    THEN 0
    ELSE outstanding(c, n - 1) + (IF HasRange(n, c) THEN descriptorSets[n].layout[c] ELSE 0)

\* The ranges [offset, offset + count) of channel c of sets i and j
Disjoint(i, j, c) ==
    \/ descriptorSets[i].offsets[c] + descriptorSets[i].layout[c] <= descriptorSets[j].offsets[c]
    \/ descriptorSets[j].offsets[c] + descriptorSets[j].layout[c] <= descriptorSets[i].offsets[c]

\* The indices of array s inside a range of a live set
allocatedSlots(s) ==
    UNION {storageSlots(s, descriptorSets[id].layout, descriptorSets[id].offsets,
                        m_maxDescriptorCount) : id \in LiveSets}

C5_OutstandingWithinCapacity ==
    \A k \in Kinds : outstanding(k, m_maxSets) <= m_maxDescriptorCount[k]

\* C5 witness: a type with capacity for several descriptors is fully
\* allocated to more than one set, and a further request was refused.
C5_Witness ==
    /\ poolResult.err = "CapacityExhausted"
    /\ \E k \in Kinds :
          /\ m_maxDescriptorCount[k] >= 2
          /\ outstanding(k, m_maxSets) = m_maxDescriptorCount[k]
          /\ Cardinality({id \in LiveSets : HasRange(id, k)}) >= 2

\* C6: the ranges of one descriptor type held by two live sets are disjoint,
\* and every such range lies within [0, m_maxDescriptorCount[type]).
C6_RangesExclusive ==
    \A k \in Kinds : \A i \in LiveSets :
        HasRange(i, k) =>
            /\ descriptorSets[i].offsets[k] + descriptorSets[i].layout[k] <= m_maxDescriptorCount[k]
            /\ \A j \in LiveSets \ {i} : HasRange(j, k) => Disjoint(i, j, k)

\* C6 witness: a set created after another one was freed holds a range
\* below the range of a set that was created before it.
C6_Witness ==
    \E k \in Kinds : \E i, j \in LiveSets :
        /\ i < j
        /\ HasRange(i, k) /\ HasRange(j, k)
        /\ descriptorSets[j].offsets[k] < descriptorSets[i].offsets[k]

\* C7: in every storage array the indices that hold a constructed descriptor
\* are exactly the indices inside the ranges of the live sets.
C7_ConstructedIsAllocated ==
    \A s \in StorageArrays : constructed[s] = allocatedSlots(s)

(***************************************************************************)
(* Properties of one allocator.                                            *)
(***************************************************************************)
\* The number of addresses in a set of disjoint ranges <<offset, size>>
RECURSIVE totalSize(_)
totalSize(ranges) ==
    IF ranges = {}
    THEN 0
    ELSE Only({r[2] + totalSize(ranges \ {r}) : r \in {CHOOSE q \in ranges : TRUE}})

\* C11: an allocate call that returns invalid_address leaves the allocator
\* (cursor, free ranges) and the addresses handed out as they were before the
\* call, with the linear and with the general allocator.
C11_FailedAllocateChangesNothing ==
    [][ alloc_last'.op = "allocate" /\ alloc_last'.addr = invalid_address =>
            /\ alloc_state' = alloc_state
            /\ alloc_live' = alloc_live ]_vars

\* C11 witness: an allocate failed for want of a contiguous range although
\* as many addresses were free as it asked for.
C11_Witness ==
    /\ alloc_last.op = "allocate"
    /\ alloc_last.addr = invalid_address
    /\ alloc_last.count > 0
    /\ alloc_state.tag = "general"
    /\ totalSize(alloc_state.freeRanges) >= alloc_last.count

\* C12: with the general (reclaiming) allocator, an allocate of `count`
\* that immediately follows a free of a range of `count` addresses succeeds.
C12_AllocateAfterFreeSucceeds ==
    [][ alloc_freeing /\ alloc_last'.op = "allocate" /\ alloc_last'.afterFree =>
            alloc_last'.addr # invalid_address ]_vars

\* C12 witness: an allocate right after a free of the same count found its
\* range although no address is free after it, so it could only be served
\* from the range just freed.
C12_Witness ==
    /\ alloc_freeing
    /\ alloc_last.op = "allocate"
    /\ alloc_last.afterFree
    /\ alloc_last.count > 0
    /\ alloc_last.addr # invalid_address
    /\ alloc_state.tag = "general"
    /\ totalSize(alloc_state.freeRanges) = 0

\* C13: with the linear (non-reclaiming) allocator no call moves the cursor
\* back; a successful allocate(count) returns the cursor of before the call
\* and moves it forward by count; the range it hands out shares no address
\* with a range handed out earlier; and the ranges handed out since
\* construction never add up to more than the capacity.
C13_LinearAllocatorOnlyAdvances ==
    [][ ~alloc_freeing /\ alloc_state.tag = "linear" =>
            /\ alloc_state'.tag = "linear"
            /\ alloc_state'.cursor >= alloc_state.cursor
            /\ alloc_last'.op = "allocate" /\ alloc_last'.addr # invalid_address =>
                   /\ alloc_last'.addr = alloc_state.cursor
                   /\ alloc_state'.cursor = alloc_state.cursor + alloc_last'.count
                   /\ ~alloc_last'.clash
            /\ Cardinality(alloc_live') <= alloc_max ]_vars

\* C13 witness: a linear allocator was used up one address at a time, and
\* the allocate that followed failed.
C13_Witness ==
    /\ ~alloc_freeing
    /\ alloc_state.tag = "linear"
    /\ alloc_max = MaxCapacity
    /\ Cardinality(alloc_live) = alloc_max
    /\ alloc_state.cursor = alloc_max
    /\ alloc_last.op = "allocate"
    /\ alloc_last.count = 1
    /\ alloc_last.addr = invalid_address

(***************************************************************************)
(* Properties of freeDescriptorSets.                                       *)
(***************************************************************************)
\* The pool was created with ECF_FREE_DESCRIPTOR_SET_BIT
Reclaiming == "ECF_FREE_DESCRIPTOR_SET_BIT" \in m_flags

\* C14: on a pool created without ECF_FREE_DESCRIPTOR_SET_BIT every
\* freeDescriptorSets fails with InvalidOperation and leaves the allocators,
\* the sets and the constructed storage as they were; and no step of such a
\* pool calls allocator_state_t::free (which would leave a linear allocator
\* undefined).
C14_FreeRejectedWithoutFreeBit ==
    [][ ~Reclaiming =>
            /\ \A c \in Channels : m_descriptorAllocators'[c].tag # "undefined"
            /\ poolResult'.op = "freeDescriptorSets" =>
                   /\ ~poolResult'.ok
                   /\ poolResult'.err = "InvalidOperation"
                   /\ m_descriptorAllocators' = m_descriptorAllocators
                   /\ descriptorSets' = descriptorSets
                   /\ constructed' = constructed ]_vars

\* C14 witness: freeDescriptorSets was rejected on a pool without the bit
\* that has sets alive and storage constructed.
C14_Witness ==
    /\ ~Reclaiming
    /\ poolResult.op = "freeDescriptorSets"
    /\ poolResult.err = "InvalidOperation"
    /\ Cardinality(LiveSets) >= 2
    /\ \E s \in StorageArrays : constructed[s] # {}

\* The sets a step frees
freedSets == {id \in SetIds : descriptorSets[id].live /\ ~descriptorSets'[id].live}

\* Every address of the free range r of before a step is free after it
staysFree(r, after) ==
    \E q \in after.freeRanges : q[1] <= r[1] /\ r[1] + r[2] <= q[1] + q[2]

\* C15: a freeDescriptorSets that succeeds (pool created with
\* ECF_FREE_DESCRIPTOR_SET_BIT) gives back, on every channel, exactly the
\* ranges [offset, offset + count) of the freed sets whose offset is not ~0u:
\* these addresses are free afterwards, what was free stays free, and the
\* free addresses grow by exactly the counts freed; a channel on which every
\* freed set holds ~0u keeps its allocator as it was; the storage constructed
\* loses exactly the slots of the freed ranges; and the sets that stay alive
\* keep their offset tables, with every address of their ranges still taken.
C15_FreeReturnsExactlyTheRanges ==
    [][ Reclaiming /\ poolResult'.op = "freeDescriptorSets" /\ poolResult'.ok =>
            /\ \A c \in Channels :
                  IF \A id \in freedSets : descriptorSets[id].offsets[c] = AllBitsSet
                  THEN m_descriptorAllocators'[c] = m_descriptorAllocators[c]
                  ELSE /\ m_descriptorAllocators'[c].tag = "general"
                       /\ \A id \in freedSets :
                             descriptorSets[id].offsets[c] # AllBitsSet =>
                                \A i \in 0..(descriptorSets[id].layout[c] - 1) :
                                   isFree(m_descriptorAllocators'[c],
                                          descriptorSets[id].offsets[c] + i)
                       /\ \A r \in m_descriptorAllocators[c].freeRanges :
                             staysFree(r, m_descriptorAllocators'[c])
                       /\ totalSize(m_descriptorAllocators'[c].freeRanges)
                             = totalSize(m_descriptorAllocators[c].freeRanges)
                                 + outstanding(c, m_maxSets) - outstanding(c, m_maxSets)'
            /\ \A s \in StorageArrays :
                  constructed'[s] =
                     constructed[s] \ UNION {storageSlots(s, descriptorSets[id].layout,
                                                          descriptorSets[id].offsets,
                                                          m_maxDescriptorCount) : id \in freedSets}
            /\ \A id \in SetIds \ freedSets :
                  /\ descriptorSets'[id] = descriptorSets[id]
                  /\ \A c \in Channels :
                        HasRange(id, c) =>
                           \A i \in 0..(descriptorSets[id].layout[c] - 1) :
                              ~isFree(m_descriptorAllocators'[c],
                                      descriptorSets[id].offsets[c] + i) ]_vars

\* C15 witness: a set was freed from between two sets that stay alive: on
\* some channel a free range lies above the range of one live set and below
\* the range of another, while some other channel was not touched.
C15_Witness ==
    /\ Reclaiming
    /\ poolResult.op = "freeDescriptorSets"
    /\ poolResult.ok
    /\ \E c \in Channels, i \in LiveSets, j \in LiveSets :
          /\ HasRange(i, c)
          /\ HasRange(j, c)
          /\ \E r \in m_descriptorAllocators[c].freeRanges :
                /\ descriptorSets[i].offsets[c] < r[1]
                /\ r[1] < descriptorSets[j].offsets[c]
    /\ \E c \in Channels :
          /\ m_descriptorAllocators[c].tag = "general"
          /\ m_descriptorAllocators[c].freeRanges = {<<0, m_descriptorAllocators[c].reserved>>}

(***************************************************************************)
(* Properties of the offset tables.                                        *)
(***************************************************************************)
\* The descriptor count the allocator of channel c was constructed with: for
\* the mutable samplers it is the word the constructor read at index ET_COUNT
maxCountOf(c) ==
    IF c \in Kinds THEN m_maxDescriptorCount[c] ELSE m_descriptorAllocators[c].reserved

\* C16: the default SDescriptorOffsets holds ~0u in each of its ET_COUNT + 1
\* entries; in the table of every set the pool created an entry is ~0u
\* exactly when the layout declares no descriptor on that channel (so no
\* allocation that succeeded returned ~0u), and every other entry is the
\* base of a range inside the capacity of its channel.
C16_OffsetTableSentinel ==
    /\ DOMAIN SDescriptorOffsets = Channels
    /\ Cardinality(Channels) = ET_COUNT + 1
    /\ \A c \in Channels : SDescriptorOffsets[c] = AllBitsSet
    /\ \A id \in LiveSets, c \in Channels :
          /\ descriptorSets[id].offsets[c] = AllBitsSet <=> descriptorSets[id].layout[c] = 0
          /\ descriptorSets[id].offsets[c] # AllBitsSet =>
                descriptorSets[id].offsets[c] + descriptorSets[id].layout[c] <= maxCountOf(c)

\* C16 witness: a set holds a range of mutable samplers that does not start
\* at 0, a range of combined image samplers, and ~0u on the channels its
\* layout does not use.
C16_Witness ==
    \E id \in LiveSets :
        /\ descriptorSets[id].offsets[MutableSamplers] # AllBitsSet
        /\ descriptorSets[id].offsets[MutableSamplers] > 0
        /\ descriptorSets[id].offsets["ET_COMBINED_IMAGE_SAMPLER"] # AllBitsSet
        /\ descriptorSets[id].offsets["ET_STORAGE_BUFFER"] = AllBitsSet

(***************************************************************************)
(* Properties of the errors of createDescriptorSets.                       *)
(***************************************************************************)
\* C18: a createDescriptorSets whose batch holds a layout that declares
\* descriptors on a channel of zero capacity fails with LayoutMismatch, on a
\* pool with and on a pool without ECF_FREE_DESCRIPTOR_SET_BIT, and leaves
\* every allocator as it was.
C18_ZeroCapacityIsLayoutMismatch ==
    [][ poolResult'.op = "createDescriptorSets" /\ poolResult'.zeroCapacity =>
            /\ ~poolResult'.ok
            /\ poolResult'.err = "LayoutMismatch"
            /\ m_descriptorAllocators' = m_descriptorAllocators
            /\ descriptorSets' = descriptorSets ]_vars

\* C18 witness: such a call failed on a pool that has sets alive and an
\* allocator that could have served the other layout of the batch.
C18_Witness ==
    /\ poolResult.op = "createDescriptorSets"
    /\ poolResult.zeroCapacity
    /\ poolResult.err = "LayoutMismatch"
    /\ LiveSets # {}
    /\ \E c \in Channels :
          \/ /\ m_descriptorAllocators[c].tag = "general"
             /\ m_descriptorAllocators[c].freeRanges # {}
          \/ /\ m_descriptorAllocators[c].tag = "linear"
             /\ m_descriptorAllocators[c].cursor < m_descriptorAllocators[c].reserved

(***************************************************************************)
(* Properties of the handles stored through the offset tables.             *)
(***************************************************************************)
\* The handle last written to a binding, none when it was never written
lastWritten(b) ==
    IF \E w \in written : <<w[1], w[2], w[3]>> = b
    THEN Only({w[4] : w \in {x \in written : <<x[1], x[2], x[3]>> = b}})
    ELSE NoHandle

\* C17: every binding of every live set reads, through the offset table of
\* the set, the handle last written to it (none before the first write),
\* whatever was written to the other sets meanwhile; and after
\* freeDescriptorSets the slots of the freed sets hold no handle.
C17_HandlesRoundTrip ==
    [][ /\ \A b \in Bindings' :
              handleAt(stored', storageOf(b[2]), slotOf(b[1], b[2], b[3])') = lastWritten(b)'
        /\ \A id \in freedSets, c \in Channels, i \in 0..(MaxDescriptors - 1) :
              descriptorSets[id].offsets[c] # AllBitsSet /\ i < descriptorSets[id].layout[c] =>
                 handleAt(stored', storageOf(c), slotOf(id, c, i)) = NoHandle ]_vars

(***************************************************************************)
(* Properties of releaseSet.                                               *)
(***************************************************************************)
\* The cache after releaseSet(f, setIx) of an ACQUIRED slot
releasedAs(setIx, f) ==
    /\ releaseStatus' = "ok"
    /\ slotState' = [slotState EXCEPT ![setIx] = "PENDING"]
    /\ slotToken' = [slotToken EXCEPT ![setIx] = f]

\* C19: releaseSet of an ACQUIRED slot, by an entry point of the transform
\* tree manager (line 846) or by the user, leaves that slot
\* RELEASED-PENDING with the fence of the call recorded, and every other
\* slot with the state and the fence it had.
C19_ReleaseMovesOnlyThatSlot ==
    [][ /\ \A e \in EntryPoints :
              pc[e] = "release" /\ pc'[e] = "idle"
                 /\ dsix[e] \in Slots /\ slotState[dsix[e]] = "ACQUIRED" =>
                    releasedAs(dsix[e], fence[e])
        /\ \A setIx \in Slots, f \in Fences :
              User_releaseSet(setIx, f) /\ slotState[setIx] = "ACQUIRED" =>
                 releasedAs(setIx, f) ]_vars

\* C19 witness: after a release two slots are RELEASED-PENDING on
\* different fences, one of them not yet signalled.
C19_Witness ==
    /\ releaseStatus = "ok"
    /\ \E s \in Slots, t \in Slots :
          /\ slotState[s] = "PENDING"
          /\ slotState[t] = "PENDING"
          /\ slotToken[s] # slotToken[t]
          /\ slotToken[s] \notin signalled

\* C20: a releaseSet of a set that is not ACQUIRED (FREE, RELEASED-PENDING
\* or no slot at all) returns InvalidOperation and leaves the state and the
\* fence of every slot as they were: the fence a slot is pending on is not
\* replaced by the fence of the second release.
C20_ReleaseOfNotAcquiredRejected ==
    [][ \A setIx \in Slots \cup IndicesOutOfRange, f \in Fences :
            User_releaseSetNotAcquired(setIx, f) =>
               /\ releaseStatus' = "InvalidOperation"
               /\ slotState' = slotState
               /\ slotToken' = slotToken ]_vars

\* C20 witness: a releaseSet was rejected while a slot is pending on a fence
\* not yet signalled and another fence is signalled, and a slot is FREE.
C20_Witness ==
    /\ releaseStatus = "InvalidOperation"
    /\ \E s \in Slots :
          /\ slotState[s] = "PENDING"
          /\ slotToken[s] \notin signalled
    /\ signalled # {}
    /\ \E s \in Slots : slotState[s] = "FREE"

(***************************************************************************)
(* Properties of the misuse of one allocator.                              *)
(***************************************************************************)
\* C21: with the general (reclaiming) allocator, a free of a range of which
\* some address is not allocated (freed before, never handed out, or past
\* the capacity) is refused and leaves the allocator as it was; and no
\* allocate ever hands out an address that is still held.
C21_FreeOfUnallocatedRefused ==
    [][ alloc_freeing =>
            /\ ~alloc_last'.clash
            /\ alloc_last'.op = "free"
                  /\ ~(addressesOf(alloc_last'.addr, alloc_last'.count) \subseteq alloc_live) =>
                     /\ alloc_last'.failedFast
                     /\ alloc_state' = alloc_state ]_vars

\* C21 witness: a range was freed a second time while the addresses next to
\* it are held, and it is free.
C21_Witness ==
    /\ alloc_freeing
    /\ alloc_last.op = "free"
    /\ alloc_last.failedFast
    /\ alloc_last.count = 1
    /\ alloc_last.addr = 1
    /\ isFree(alloc_state, 1)
    /\ {0, 2} \subseteq alloc_live

(***************************************************************************)
(* Properties of the progress of the cache.                                *)
(***************************************************************************)
\* Every slot is held or pending on a fence that is not signalled
NothingToHand ==
    \A s \in Slots :
        \/ slotState[s] = "ACQUIRED"
        \/ slotState[s] = "PENDING" /\ slotToken[s] \notin signalled

\* C22: acquireSet never waits: in every state, also when every slot is
\* ACQUIRED or pending on a fence that is not signalled, a caller that is
\* about to call it can take the step, without any fence being signalled
\* first; what it got is a slot of the cache or invalid_index; and an entry
\* point that got invalid_index can return at once.
C22_AcquireNeverWaits ==
    /\ \A e \in EntryPoints :
          /\ pc[e] = "idle" => ENABLED (\E f \in Fences : TTM_acquireSet(e, f))
          /\ pc[e] = "failed" => dsix[e] = invalid_index /\ ENABLED TTM_returnFalse(e)
          /\ pc[e] \notin {"idle", "failed"} => dsix[e] \in Slots
    /\ userPc = "idle" => ENABLED (\E count \in 1..SharedBindingCount : User_acquireSet(count))
    /\ userPc = "returned" => userRet \in Slots \cup {invalid_index}

\* C22 witness: an entry point was given invalid_index while every slot is
\* held or pending on a fence not signalled, and the other entry point and
\* the user can still call acquireSet.
C22_Witness ==
    /\ NothingToHand
    /\ \E s \in Slots : slotState[s] = "PENDING"
    /\ \E e \in EntryPoints : pc[e] = "failed"
    /\ \E e \in EntryPoints : pc[e] = "idle"
    /\ userPc = "idle"

(***************************************************************************)
(* The cache with a device that finishes its work, a host that keeps       *)
(* polling, and entry points that run to their end once called and are     *)
(* called again and again.                                                 *)
(***************************************************************************)
CacheFairness ==
    /\ WF_vars(Cache_poll /\ UNCHANGED <<poolVars, allocVars>>)
    /\ \A f \in Fences : WF_vars(Device_signal(f) /\ UNCHANGED <<poolVars, allocVars>>)
    /\ \A e \in EntryPoints :
          /\ WF_vars((\E f \in Fences : TTM_acquireSet(e, f)) /\ UNCHANGED <<poolVars, allocVars>>)
          /\ WF_vars(TTM_returnFalse(e) /\ UNCHANGED <<poolVars, allocVars>>)
          /\ WF_vars(TTM_updateDescriptorSets(e) /\ UNCHANGED <<poolVars, allocVars>>)
          /\ WF_vars(TTM_bindAndDispatch(e) /\ UNCHANGED <<poolVars, allocVars>>)
          /\ WF_vars(TTM_releaseSet(e) /\ UNCHANGED <<poolVars, allocVars>>)

\* The entry points, the poll and the device alone
LiveStep ==
    \/ \E e \in EntryPoints, f \in Fences : TTM_acquireSet(e, f)
    \/ \E e \in EntryPoints : TTM_returnFalse(e)
    \/ \E e \in EntryPoints : TTM_updateDescriptorSets(e)
    \/ \E e \in EntryPoints : TTM_bindAndDispatch(e)
    \/ \E e \in EntryPoints : TTM_releaseSet(e)
    \/ Cache_poll
    \/ \E f \in Fences : Device_signal(f)

LiveNext == LiveStep /\ UNCHANGED <<poolVars, allocVars>>

CacheLiveSpec == CacheInit /\ [][LiveNext]_vars /\ CacheFairness

\* Slot s is RELEASED-PENDING on a fence that is signalled
Satisfied(s) == slotState[s] = "PENDING" /\ slotToken[s] \in signalled

\* Slot s is what some caller was just given by acquireSet
Returned(s) ==
    \/ \E e \in EntryPoints : pc[e] = "update" /\ dsix[e] = s
    \/ userPc = "returned" /\ userRet = s

\* Slot s is the only one an acquireSet called now can hand out
OnlyOneToHand(s) ==
    \/ FreeSlots(slotState) = {s}
    \/ FreeSlots(slotState) = {} /\ Reclaimable(slotState, slotToken, signalled) = {s}

Creates == poolResult'.op = "createDescriptorSets"

\* The step produced exactly `count` sets and gave them out, leaving the
\* older sets alone; or it failed and produced none
AllOrNone ==
    IF poolResult'.ok
    THEN /\ LiveSets \subseteq LiveSets'
         /\ Cardinality(LiveSets' \ LiveSets) = created'.count
         /\ Len(created'.output) = created'.count
         /\ {created'.output[j] : j \in 1..created'.count} = LiveSets' \ LiveSets
         /\ \A id \in LiveSets : descriptorSets'[id] = descriptorSets[id]
    ELSE /\ descriptorSets' = descriptorSets
         /\ created'.output = <<>>

\* C24: createDescriptorSets returns true with exactly `count` sets
\* produced, or false with none produced; createDescriptorSet returns a set
\* exactly when its createDescriptorSets(1, ...) returned true, and then the
\* one set that call produced, and nullptr otherwise.
C24_NoPartialSuccess ==
    [][ Creates =>
           /\ AllOrNone
           /\ created'.single =>
                  /\ created'.count = 1
                  /\ created'.set # NoSet <=> poolResult'.ok
                  /\ poolResult'.ok => LiveSets' \ LiveSets = {created'.set} ]_vars

\* C24 witness: a batch of several layouts failed at a later layout after
\* the ranges of an earlier one had been allocated, and nothing was given out
C24_Witness ==
    /\ poolResult.op = "createDescriptorSets"
    /\ ~poolResult.ok
    /\ poolResult.undone
    /\ created.count = MaxBatch
    /\ created.set = NoSet
    /\ created.output = <<>>
    /\ LiveSets = {}

RECURSIVE requestedOf(_, _)
\* The sum of the counts of the first n requests that name type k
requestedOf(k, n) ==
    IF n = 0
    THEN 0
    ELSE requestedOf(k, n - 1) + (IF requested[n].type = k THEN requested[n].count ELSE 0)

\* C26: for every descriptor type, m_maxDescriptorCount of the type is the
\* sum of the counts of all the requests of the poolSizes array that name
\* it, as an unsigned word holds it (modulo 2^WordBits), and 0 when no request
\* names it; and it stays so whatever the pool is used for.
C26_CapacityIsSumOfRequests ==
    \A k \in Kinds :
        /\ m_maxDescriptorCount[k] = requestedOf(k, Len(requested)) % (2^WordBits)
        /\ (\A i \in 1..Len(requested) : requested[i].type # k) => m_maxDescriptorCount[k] = 0

\* C26 witness: three requests, two of them naming the same type and one
\* another, of a pool that has handed out a set
C26_Witness ==
    /\ Len(requested) = MaxPoolSizes
    /\ \E i, j \in 1..Len(requested) :
          /\ i < j
          /\ requested[i].type = requested[j].type
          /\ requested[i].count = 1 /\ requested[j].count = 1
          /\ m_maxDescriptorCount[requested[i].type] = 2
          /\ \E h \in 1..Len(requested) : requested[h].type # requested[i].type
    /\ LiveSets # {}

RECURSIVE sharedCount(_)
\* The sum, as a word holds it, of m_maxDescriptorCount over the types in
\* the sequence `types`
sharedCount(types) ==
    IF types = <<>>
    THEN 0
    ELSE (m_maxDescriptorCount[Head(types)] + sharedCount(Tail(types))) % (2^WordBits)

\* C27: every storage array of descriptors of the types has as many
\* elements as the sum of m_maxDescriptorCount over exactly the types stored
\* in it, and the range of every live set lies inside its array.
C27_StorageSizedForItsTypes ==
    /\ \A s \in StorageArrays \ {"m_mutableSamplerStorage"} :
          m_storageSize[s] = sharedCount(storageChannels(s))
    /\ \A id \in LiveSets : \A k \in Kinds :
          HasRange(id, k) =>
              storageBase(k, m_maxDescriptorCount) + descriptorSets[id].offsets[k]
                  + descriptorSets[id].layout[k] <= m_storageSize[storageOf(k)]

\* The addresses allocator a has not handed out
freeAddresses(a) ==
    IF a.tag = "general"
    THEN {x \in 0..(a.reserved - 1) : isFree(a, x)}
    ELSE IF a.tag = "linear" THEN a.cursor..(a.reserved - 1) ELSE {}

\* The addresses of channel c that the sets `ids` hold after the step
takenBy(ids, c) ==
    UNION {addressesOf(descriptorSets'[id].offsets[c], descriptorSets'[id].layout[c])
           : id \in {x \in ids : descriptorSets'[x].offsets[c] # AllBitsSet}}

\* C28: a successful create call gives every new set, for every channel its
\* layout declares, one range of as many addresses as the layout declares
\* for the channel, all of them free before the call, and takes nothing
\* else from the allocator of the channel: one allocation of the total. For a
\* channel the layout does not declare the entry stays ~0u, and an allocator
\* no layout of the call declares is left as it was.
C28_OneRangePerKind ==
    [][ Creates /\ poolResult'.ok =>
           \A c \in Channels :
              /\ \A id \in LiveSets' \ LiveSets :
                    IF descriptorSets'[id].layout[c] = 0
                    THEN descriptorSets'[id].offsets[c] = AllBitsSet
                    ELSE /\ descriptorSets'[id].offsets[c] # AllBitsSet
                         /\ \A x \in addressesOf(descriptorSets'[id].offsets[c],
                                                 descriptorSets'[id].layout[c]) :
                               x \in freeAddresses(m_descriptorAllocators[c])
              /\ \A i, j \in LiveSets' \ LiveSets :
                    i # j /\ HasRange(i, c)' /\ HasRange(j, c)' => Disjoint(i, j, c)'
              /\ IF \A id \in LiveSets' \ LiveSets : descriptorSets'[id].layout[c] = 0
                 THEN m_descriptorAllocators'[c] = m_descriptorAllocators[c]
                 ELSE freeAddresses(m_descriptorAllocators'[c])
                         = freeAddresses(m_descriptorAllocators[c])
                              \ takenBy(LiveSets' \ LiveSets, c) ]_vars

\* C28 witness: a call has just created a set that holds one range of
\* several storage buffers, above the range of an older set, and nothing of
\* the types its layout does not declare
C28_Witness ==
    /\ poolResult.op = "createDescriptorSets"
    /\ poolResult.ok
    /\ \E j \in 1..Len(created.output) :
          /\ descriptorSets[created.output[j]].layout["ET_STORAGE_BUFFER"] >= 2
          /\ descriptorSets[created.output[j]].offsets["ET_STORAGE_BUFFER"] > 0
          /\ descriptorSets[created.output[j]].offsets["ET_UNIFORM_BUFFER"] = AllBitsSet
    /\ Cardinality(LiveSets) > Len(created.output)

(***************************************************************************)
(* Properties of allocate on allocators in every state.                    *)
(***************************************************************************)
\* The step is an allocate(0, allowsFreeing) call
AllocatesNothing == alloc_last'.op = "allocate" /\ alloc_last'.count = 0

\* C29: allocate(0) returns an address, not invalid_address, and leaves the
\* allocator as it was, on every allocator_state_t: general or linear, fresh,
\* partly used or full, and constructed for a maxDescriptorCount of 0.
C29_AllocateNothingSucceeds ==
    [][ AllocatesNothing =>
           /\ alloc_last'.addr # invalid_address
           /\ alloc_state' = alloc_state ]_vars

\* C30: on a fresh general allocator of 4 addresses allocate(3) returns 0;
\* allocate(2) then fails and changes nothing; after free(0, 1) allocate(2)
\* fails again and changes nothing, addresses 0 and 3 being free but apart.
\* On every allocator an allocate(count) that succeeds returns the first of
\* `count` consecutive addresses that were all free.
C30_NeedsContiguousRun ==
    [][ /\ alloc_last'.phase = 1 => alloc_last'.addr = 0
        /\ alloc_last'.phase = 2 =>
               alloc_last'.addr = invalid_address /\ alloc_state' = alloc_state
        /\ alloc_last'.phase = 4 =>
               /\ NotHandedOut = {0, 3}
               /\ alloc_last'.addr = invalid_address
               /\ alloc_state' = alloc_state
        /\ alloc_last'.op = "allocate" /\ alloc_last'.count > 0
              /\ alloc_last'.addr # invalid_address =>
               addressesOf(alloc_last'.addr, alloc_last'.count) \subseteq NotHandedOut ]_vars

\* C30 witness: the four calls were made and the last allocate(2) failed
\* with addresses 0 and 3 free
C30_Witness ==
    /\ alloc_last.phase = 4
    /\ alloc_last.addr = invalid_address
    /\ NotHandedOut = {0, 3}
    /\ isFree(alloc_state, 0) /\ isFree(alloc_state, 3)

\* Some `count` consecutive addresses are not handed out
HasFreeRun(count) ==
    \E offset \in 0..(alloc_max - 1) : addressesOf(offset, count) \subseteq NotHandedOut

\* C31: on a reclaiming allocator freed ranges that touch are one free range
\* again: once nothing is handed out any more, whatever was allocated and in
\* whatever order it was freed, allocate(capacity) succeeds; and an
\* allocate(count) succeeds whenever `count` consecutive addresses are not
\* handed out, so after the frees of two adjacent ranges of sizes a and b
\* allocate(a + b) succeeds.
C31_FreedRangesCoalesce ==
    /\ [](alloc_freeing /\ alloc_live = {} =>
              allocate(alloc_state, alloc_max, alloc_freeing).addr = 0)
    /\ [][ alloc_freeing /\ alloc_last'.op = "allocate" /\ alloc_last'.count > 0
              /\ HasFreeRun(alloc_last'.count) =>
               alloc_last'.addr # invalid_address ]_vars
    /\ [][ alloc_last.op = "free" /\ alloc_last.joined > 0
              /\ alloc_last'.op = "allocate" /\ alloc_last'.count = alloc_last.joined =>
               alloc_last'.addr # invalid_address ]_vars

\* C31 witness: every address had been handed out, the last free joined the
\* range it freed with the addresses freed before, nothing was handed out
\* any more, and the allocate of the whole capacity that followed succeeded
C31_Witness ==
    /\ alloc_freeing /\ alloc_max >= 3
    /\ alloc_last.wasFull
    /\ alloc_last.op = "allocate" /\ alloc_last.count = alloc_max
    /\ alloc_last.joined = alloc_max
    /\ alloc_last.addr = 0

\* The union member the creation flags of the pool select
selectedByFlags == IF Reclaiming THEN "general" ELSE "linear"

\* Allocator a has only ever been used as the member `tag` of its union
usedOnlyAs(a, tag) ==
    /\ a.tag = (IF a.reserved = 0 THEN "none" ELSE tag)
    /\ tag = "linear" => a.freeRanges = {}
    /\ tag = "general" => a.cursor = 0

\* C32: no createDescriptorSets, createDescriptorSet or freeDescriptorSets
\* call changes m_maxSets (getCapacity), m_maxDescriptorCount, the creation
\* flags or the capacity and the constructed member of any allocator; and
\* the allocator of every channel, the mutable samplers included, is only
\* ever used as the member the creation flag selected at construction.
C32_ConstructionParametersFixed ==
    /\ [][ /\ m_flags' = m_flags
            /\ m_maxSets' = m_maxSets
            /\ getCapacity' = getCapacity
            /\ m_maxDescriptorCount' = m_maxDescriptorCount
            /\ \A c \in Channels :
                  /\ m_descriptorAllocators'[c].tag = m_descriptorAllocators[c].tag
                  /\ m_descriptorAllocators'[c].reserved = m_descriptorAllocators[c].reserved ]_vars
    /\ [](\A c \in Channels : usedOnlyAs(m_descriptorAllocators[c], selectedByFlags))

\* C32 witness: a pool created without the free bit holds a set with a
\* range of mutable samplers, and a batch that had allocated a whole set
\* failed and was rolled back
C32_Witness ==
    /\ ~Reclaiming
    /\ poolResult.op = "createDescriptorSets" /\ ~poolResult.ok /\ poolResult.undone
    /\ \E id \in LiveSets : descriptorSets[id].offsets[MutableSamplers] # AllBitsSet
    /\ m_descriptorAllocators[MutableSamplers].cursor > 0

slotsOfRange(id, c) == {slotOf(id, c, i) : i \in 0..(descriptorSets[id].layout[c] - 1)}

\* C34: in a storage array shared by several descriptor types, each with an
\* allocator of its own, the slots of a live range of one type and the slots
\* of a live range of another type, of the same set or of another, never
\* overlap.
C34_SharedArrayRangesApart ==
    \A c \in Channels, d \in Channels :
        c # d /\ storageOf(c) = storageOf(d) =>
            \A i \in LiveSets, j \in LiveSets :
                HasRange(i, c) /\ HasRange(j, d) =>
                    slotsOfRange(i, c) \cap slotsOfRange(j, d) = {}

\* C34 witness: ranges of two types that share an array are live at the same
\* offset of their allocators, in one set and across two sets
C34_Witness ==
    \E c \in Channels, d \in Channels :
        /\ c # d /\ storageOf(c) = storageOf(d)
        /\ \E i \in LiveSets, j \in LiveSets :
              /\ i # j
              /\ HasRange(i, c) /\ HasRange(i, d) /\ HasRange(j, d)
              /\ descriptorSets[i].offsets[c] = descriptorSets[j].offsets[d]

\* C35: the allocator of the mutable samplers has the capacity
\* m_maxDescriptorCount[ET_COMBINED_IMAGE_SAMPLER], which is the size of
\* m_mutableSamplerStorage, and every range of mutable samplers of a live
\* set lies inside that array.
C35_MutableSamplerCapacity ==
    /\ m_descriptorAllocators[MutableSamplers].reserved =
          m_maxDescriptorCount["ET_COMBINED_IMAGE_SAMPLER"]
    /\ m_storageSize["m_mutableSamplerStorage"] =
          m_maxDescriptorCount["ET_COMBINED_IMAGE_SAMPLER"]
    /\ \A id \in LiveSets :
          HasRange(id, MutableSamplers) =>
              \A x \in slotsOfRange(id, MutableSamplers) :
                  x < m_storageSize["m_mutableSamplerStorage"]

\* Entry point e is inside a call that acquired a slot
InCall(e) == pc[e] \in {"update", "record", "release"}

\* The step of entry point e from position `from` to position `to`
Moves(e, from, to) == pc[e] = from /\ pc'[e] = to

\* What the step an entry point takes inside a call must be: the write of
\* the set at dsix, then the bind and dispatch of that set, then the release
\* of dsix with the fence of the call, which returns
InOrder(e) ==
    /\ pc'[e] # pc[e] =>
          \/ Moves(e, "idle", "update") \/ Moves(e, "idle", "failed")
          \/ Moves(e, "failed", "idle")
          \/ Moves(e, "update", "record") \/ Moves(e, "record", "release")
          \/ Moves(e, "release", "idle")
    /\ Moves(e, "idle", "update") =>
          dsix'[e] \in Slots /\ slotState'[dsix'[e]] = "ACQUIRED" /\ fence'[e] \in Fences
    /\ Moves(e, "update", "record") =>
          /\ hostWrite' = {dsix[e]}
          /\ dsix'[e] = dsix[e] /\ fence'[e] = fence[e]
          /\ slotState' = slotState /\ slotToken' = slotToken
    /\ Moves(e, "record", "release") =>
          /\ cmdbuf'[e] = {dsix[e]}
          /\ dsix'[e] = dsix[e] /\ fence'[e] = fence[e]
          /\ slotState' = slotState /\ slotToken' = slotToken
    /\ Moves(e, "release", "idle") =>
          /\ slotState[dsix[e]] = "ACQUIRED"
          /\ releaseStatus' = "ok"
          /\ slotState' = [slotState EXCEPT ![dsix[e]] = "PENDING"]
          /\ slotToken' = [slotToken EXCEPT ![dsix[e]] = fence[e]]

\* C36: in updateLocalTransforms and recomputeGlobalTransforms a successful
\* acquire is followed, inside the call and in this order, by the write of
\* the acquired set, its bind and dispatch, and one release of that index
\* with the fence of the call, after which the call returns; a slot stops
\* being ACQUIRED only by that release, and no slot is ACQUIRED unless an
\* entry point is inside the call that acquired it.
C36_AcquireWriteBindDispatchRelease ==
    /\ [][\A e \in EntryPoints : InOrder(e)]_vars
    /\ [][\A s \in Slots :
              slotState[s] = "ACQUIRED" /\ slotState'[s] # "ACQUIRED" =>
                  \E e \in EntryPoints : dsix[e] = s /\ Moves(e, "release", "idle")]_vars
    /\ [](\A s \in Slots :
              slotState[s] = "ACQUIRED" =>
                  Cardinality({e \in EntryPoints : InCall(e) /\ dsix[e] = s}) = 1)
    /\ \A e \in EntryPoints : InCall(e) ~> pc[e] = "idle"

\* C36 witness: one entry point has released its slot with its fence and
\* returned, while the other has written, bound and dispatched its own slot
\* and is about to release it
C36_Witness ==
    \E e \in EntryPoints, s \in Slots :
        /\ pc[e] = "release" /\ cmdbuf[e] = {dsix[e]} /\ slotState[dsix[e]] = "ACQUIRED"
        /\ s # dsix[e]
        /\ slotState[s] = "PENDING" /\ slotToken[s] \in Fences
        /\ releaseStatus = "ok"
        /\ \E o \in EntryPoints : pc[o] = "idle"

\* What a step of a failed call leaves alone: the cache, the sets written,
\* the command buffers, the work in flight and the outcome of the last release
FailedCallFrame ==
    /\ slotState' = slotState /\ slotToken' = slotToken
    /\ hostWrite' = {}
    /\ cmdbuf' = cmdbuf /\ inFlight' = inFlight
    /\ releaseStatus' = releaseStatus

\* C37: when the cache is exhausted the acquire of an entry point returns
\* invalid_index and the call goes straight to its return false: no set is
\* written, nothing is bound or dispatched, no slot is released, and the
\* cache is as it was before the call.
C37_ExhaustedCallDoesNothing ==
    [][\A e \in EntryPoints :
          /\ TTM_acquires(e) /\ acquireFound(slotState, slotToken, signalled) = "exhausted" =>
                /\ Moves(e, "idle", "failed")
                /\ dsix'[e] = invalid_index
                /\ FailedCallFrame
          /\ Moves(e, "idle", "failed") =>
                acquireFound(slotState, slotToken, signalled) = "exhausted"
          /\ pc[e] = "failed" /\ pc'[e] # "failed" =>
                /\ Moves(e, "failed", "idle")
                /\ cmdbuf[e] = {}
                /\ FailedCallFrame]_vars

\* C37 witness: an entry point was refused a slot while the other one held
\* one and the rest were pending on fences that had not signalled
C37_Witness ==
    \E e \in EntryPoints, o \in EntryPoints :
        /\ pc[e] = "failed" /\ dsix[e] = invalid_index
        /\ acquirePre = "exhausted"
        /\ InCall(o) /\ slotState[dsix[o]] = "ACQUIRED"
        /\ \E s \in Slots : slotState[s] = "PENDING" /\ slotToken[s] \notin signalled
        /\ cmdbuf[e] = {} /\ hostWrite = {}

\* The slots in state `state`
SlotsIn(state) == {s \in Slots : slotState[s] = state}

\* C38: every slot of the cache is FREE, ACQUIRED or RELEASED-PENDING; the
\* three counts add up to the capacity, which is DescriptorCacheSize, the
\* number of sets the pool of the cache was created for; until the first
\* acquire every slot is FREE and has no fence; and a slot has a fence
\* exactly when it is RELEASED-PENDING.
C38_SlotAccounting ==
    /\ DOMAIN slotState = Slots /\ DOMAIN slotToken = Slots
    /\ \A s \in Slots : slotState[s] \in {"FREE", "ACQUIRED", "PENDING"}
    /\ Cardinality(SlotsIn("FREE")) + Cardinality(SlotsIn("ACQUIRED"))
          + Cardinality(SlotsIn("PENDING")) = CacheCapacity
    /\ CacheCapacity = DescriptorCacheSize /\ m_maxSets = DescriptorCacheSize
    /\ history.open /\ history.log = <<>> =>
          \A s \in Slots : slotState[s] = "FREE" /\ slotToken[s] = NoFence
    /\ \A s \in Slots : slotToken[s] \in Fences <=> slotState[s] = "PENDING"
    /\ \A s \in Slots : slotToken[s] = NoFence <=> slotState[s] # "PENDING"

\* C38 witness: a slot released on a fence was reclaimed by a poll and is
\* FREE without a fence, while every other slot is held
C38_Witness ==
    /\ scenario.phase = "polled"
    /\ SlotsIn("FREE") = {scenario.slot} /\ slotToken[scenario.slot] = NoFence
    /\ SlotsIn("ACQUIRED") = Slots \ {scenario.slot}
    /\ signalled # Fences

====
